---------------------------- MODULE Spec2Model ----------------------------
(***************************************************************************)
(* Recording Orchestration Engine of the radio dashboard                   *)
(* (src/radio_dashboard.py): the interval scheduler and its job registry,  *)
(* the task executor record_station, the batch runner                      *)
(* record_all_stations_now, the statistics counters and the connection     *)
(* status table.                                                           *)
(*                                                                         *)
(* The module holds several specifications over one set of variables:      *)
(*   Spec       the scheduler thread, registration and cancellation        *)
(*   BatchSpec  one call of record_all_stations_now and its worker pool    *)
(*   BatchFairSpec  BatchSpec with its threads scheduled fairly            *)
(*   StatsSpec  concurrent record_station calls updating recording_stats   *)
(*   RecordSpec record_station calls one at a time, over every code path   *)
(*   ConnSpec   the connection monitor and test_all_stations_connection    *)
(*   ConnFairSpec  ConnSpec with the monitor thread scheduled fairly       *)
(*   RegSpec    registration (single and bulk), cancellation and firing    *)
(*   MapSpec    registrations over intervals around one and two hours      *)
(*   SelectSpec the station selection of the two bulk operations           *)
(*   FireSpec   cancellations that arrive during a firing                  *)
(*   BulkSpec   the firings of a bulk registration, with their start times *)
(*   ReadSpec   the monitor writing connection_status, and its readers     *)
(*   SnapshotSpec  get_all_stations_status step by step, with the writers  *)
(*   PathSpec   the output file paths of concurrent record_station calls   *)
(*   StopSpec   cleanup while the scheduler thread and the monitor run     *)
(*   RepairSpec repair_database (src/database_repair.py) on any schema     *)
(* Each specification leaves the variables of the others at their initial  *)
(* value.                                                                  *)
(*                                                                         *)
(* Time is counted in units of 30 seconds, except under PathSpec, where    *)
(* one unit of the clock is one second.                                    *)
(***************************************************************************)
EXTENDS Integers, Sequences, FiniteSets, TLC

VARIABLES
    now,              \* wall clock, in units of 30 s
    jobs,             \* schedule.jobs: the jobs armed in the scheduler
    sched_rows,       \* rows of table scheduled_recordings
    schema_repaired,  \* scheduled_recordings has the country and city columns
    db_schema,        \* radio_recordings.db: its tables and their columns
    sched_pc,         \* run_scheduler: "sleep" or "run" (inside run_pending)
    run_queue,        \* run_pending: the due jobs still to run in this scan
    capture,          \* the record_station call the scheduler thread is in
    capture_starts,   \* history: when the logged firings called record_station
    recording_stats,  \* self.recording_stats
    db_recordings,    \* table recordings, as the counts load_statistics reads
    last_call,        \* the last core-exposed call and the outcome it returned
    ras_pc,           \* record_all_stations_now: where the calling thread is
    all_stations,     \* record_all_stations_now: the selected stations
    max_concurrent,   \* record_all_stations_now: its argument
    ras_duration,     \* record_all_stations_now: its argument duration
    batch_num,        \* record_all_stations_now: the loop variable
    future_idx,       \* position of "for future in batch_futures"
    tasks,            \* per selected station, the state of its future
    results,          \* record_all_stations_now: results
    successful_recordings,   \* record_all_stations_now: local counter
    failed_recordings,       \* record_all_stations_now: local counter
    rec,              \* per calling thread, where its record_station call is
    connection_status,       \* self.connection_status
    is_running,       \* self.is_running
    mon_pc,           \* monitor_connections: "probe" or "sleep"
    mon_pos,          \* monitor_connections: position in this cycle's stations
    tst_pc,           \* test_all_stations_connection: the calling thread
    tst_tasks,        \* test_all_stations_connection: the submitted stations
    display,          \* get_statistics_display: the calling thread and its
                      \* iterator over connection_status.items()
    snapshot          \* get_all_stations_status: the calling thread and the
                      \* dictionary it is building

schedVars == <<now, jobs, sched_rows, schema_repaired, db_schema, sched_pc, run_queue,
               capture, capture_starts, last_call>>

schedVarsNoCall == <<now, jobs, sched_rows, schema_repaired, db_schema, sched_pc,
                     run_queue, capture, capture_starts>>

batchVars == <<ras_pc, all_stations, max_concurrent, ras_duration, batch_num,
               future_idx,
               tasks, results, successful_recordings, failed_recordings>>

recVars == <<rec>>

connVars == <<connection_status, is_running, mon_pc, mon_pos, tst_pc,
              tst_tasks, display, snapshot>>

vars == <<now, jobs, sched_rows, schema_repaired, db_schema, sched_pc, run_queue,
          capture, capture_starts, recording_stats, db_recordings, last_call, ras_pc,
          all_stations,
          max_concurrent, ras_duration, batch_num, future_idx, tasks, results,
          successful_recordings, failed_recordings, rec, connection_status,
          is_running, mon_pc, mon_pos, tst_pc, tst_tasks, display,
          snapshot>>

---------------------------------------------------------------------------
(* Bounds of the model *)

MaxTime == 6       \* the clock stops here
MaxJobs == 2       \* at most this many registrations
MaxConcurrent == 2 \* max_concurrent ranges over 1..MaxConcurrent
MaxLimit == 3      \* max_stations ranges over 0..MaxLimit, 0 for absent
MaxRecorders == 2  \* threads calling record_station at the same time
MaxRuns == 3       \* a job fires at most this many times
MaxRegTime == 2    \* the clock stops here under RegSpec
MaxRegRuns == 1    \* firings of all jobs together under RegSpec, FireSpec
MaxFireTime == 4   \* the clock stops here under FireSpec
MaxSeconds == 2    \* the clock of the file names stops here under PathSpec

(* Inputs *)

Stations == {"s1", "s2"}
IntervalInputs == {1, 2}          \* interval_minutes offered to registration
DurationInputs == {1}             \* duration: 30 s
FilterInputs == {"None", "All Countries", "A", "B", "X"}   \* country_filter

NoCapture == [job |-> 0, elapsed |-> 0, duration |-> 0, delay |-> 0]
NoCall == [op |-> "none"]

---------------------------------------------------------------------------
(* Time *)

\* n minutes in clock units
Minutes(n) == n * 2

\* subprocess.run(cmd, ..., timeout=duration+30)
HardTimeout(duration) == duration + 1

\* the whole clock units in a number of seconds
SleepUnits(seconds) == seconds \div 30

---------------------------------------------------------------------------
(* record_station: the outcome of the capture subprocess and the result    *)
(* the call returns                                                        *)

CaptureOutcomes ==
    {"exit0_file", "exit0_nofile", "nonzero", "TimeoutExpired", "Exception"}

Min(a, b) == IF a < b THEN a ELSE b

\* the length of text[:limit]
Truncate(len, limit) == Min(len, limit)

\* variant: the exit code alone decides
CaptureSucceededExitOnly(returncode, file_exists) == returncode = 0

\* "result.returncode == 0 and os.path.exists(filepath)"
CaptureSucceeded(returncode, file_exists) == returncode = 0 /\ file_exists

\* one run of subprocess.run(cmd, ...): whether it raised, and if it did
\* not, the exit code, the output file and the length of the text on
\* stderr (for an exception, the length of its message)
CaptureRun(raised, returncode, file_exists, file_size, text_len) ==
    [raised |-> raised, returncode |-> returncode,
     file_exists |-> file_exists, file_size |-> file_size,
     text_len |-> text_len]

\* the dictionary record_station returns for a run; None is "None"
RecordResult(run, duration) ==
    CASE run.raised = "TimeoutExpired" ->
            [status |-> "failed", filename |-> "None", file_size |-> 0,
             error |-> "Recording timeout", error_len |-> 17,
             duration |-> duration]
      [] run.raised = "Exception" ->
            [status |-> "failed", filename |-> "None", file_size |-> 0,
             error |-> "str(e)", error_len |-> run.text_len,
             duration |-> duration]
      [] OTHER ->
            IF CaptureSucceeded(run.returncode, run.file_exists)
            THEN [status |-> "success", filename |-> "file",
                  file_size |-> run.file_size,
                  error |-> "None", error_len |-> 0, duration |-> duration]
            ELSE IF run.text_len > 0
            THEN [status |-> "failed", filename |-> "file", file_size |-> 0,
                  error |-> "stderr",
                  error_len |-> Truncate(run.text_len, 500),
                  duration |-> duration]
            ELSE [status |-> "failed", filename |-> "file", file_size |-> 0,
                  error |-> "Unknown error", error_len |-> 13,
                  duration |-> duration]

\* a run of each kind
RunOf(outcome) ==
    CASE outcome = "exit0_file" -> CaptureRun("no", 0, TRUE, 1, 0)
      [] outcome = "exit0_nofile" -> CaptureRun("no", 0, FALSE, 0, 1)
      [] outcome = "nonzero" -> CaptureRun("no", 1, FALSE, 0, 1)
      [] outcome = "TimeoutExpired" ->
            CaptureRun("TimeoutExpired", 0, FALSE, 0, 0)
      [] OTHER -> CaptureRun("Exception", 0, FALSE, 0, 1)

\* the dictionary record_station returns
record_station(outcome, duration) == RecordResult(RunOf(outcome), duration)

\* the paths of record_station that reach save_recording_to_db and
\* update_statistics: subprocess.run returned
RunReachesStatistics(run) == run.raised = "no"

ReachesStatistics(outcome) == RunReachesStatistics(RunOf(outcome))

\* update_statistics run without interference
update_statistics(stats, status, duration) ==
    IF status = "success"
    THEN [stats EXCEPT !.total_recordings = @ + 1,
                       !.successful_recordings = @ + 1,
                       !.total_duration = @ + duration]
    ELSE [stats EXCEPT !.total_recordings = @ + 1,
                       !.failed_recordings = @ + 1]

\* the statistics after one whole record_station call
StatsAfterRecord(stats, outcome, duration) ==
    IF ReachesStatistics(outcome)
    THEN update_statistics(stats, record_station(outcome, duration).status,
                           duration)
    ELSE stats

\* what load_statistics will count in table recordings after
\* save_recording_to_db: one more row, unless the insert failed; the
\* exception of a failed insert is caught and logged
save_recording_to_db(db, status, duration, db_ok) ==
    IF ~db_ok THEN db
    ELSE IF status = "success"
    THEN [db EXCEPT !.total_recordings = @ + 1,
                    !.successful_recordings = @ + 1,
                    !.total_duration = @ + duration]
    ELSE [db EXCEPT !.total_recordings = @ + 1,
                    !.failed_recordings = @ + 1]

\* table recordings after one whole record_station call
DbAfterRecord(db, outcome, duration, db_ok) ==
    IF ReachesStatistics(outcome)
    THEN save_recording_to_db(db, record_station(outcome, duration).status,
                              duration, db_ok)
    ELSE db

ZeroStats == [total_recordings |-> 0, successful_recordings |-> 0,
              failed_recordings |-> 0, total_duration |-> 0]

---------------------------------------------------------------------------
(* The scheduler: schedule.every(...).do(job), schedule.run_pending         *)

\* variant: every interval is armed in minutes
ArmedIntervalMinutes(interval_minutes) ==
    [interval |-> interval_minutes, unit |-> "minutes"]

\* the cadence schedule_interval_recording and the loop of
\* schedule_all_stations_recording arm for interval_minutes; every().hour is
\* every(1).hours
ArmedInterval(interval_minutes) ==
    IF interval_minutes >= 60
    THEN [interval |-> interval_minutes \div 60, unit |-> "hours"]
    ELSE [interval |-> interval_minutes, unit |-> "minutes"]

\* the period of an armed cadence, in clock units
Period(cadence) ==
    IF cadence.unit = "hours"
    THEN Minutes(60 * cadence.interval)
    ELSE Minutes(cadence.interval)

\* f"every_{interval_minutes}_min"
ScheduleTime(interval_minutes) == <<"every", interval_minutes, "min">>

\* Job.should_run
should_run(job) == now >= job.next_run

\* schedule.jobs: the Job objects in the scheduler's list; jobs keeps every
\* Job object made, and armed tells whether the list still holds it
ArmedJobs == {j \in 1..Len(jobs) : jobs[j].armed}

DueJobs == {j \in ArmedJobs : should_run(jobs[j])}

\* sorted(runnable_jobs): by next_run, ties in registration order
RECURSIVE SortedDue(_)
SortedDue(S) ==
    IF S = {} THEN <<>>
    ELSE LET j == CHOOSE x \in S :
                    \A y \in S : \/ jobs[x].next_run < jobs[y].next_run
                                 \/ /\ jobs[x].next_run = jobs[y].next_run
                                    /\ x <= y
         IN <<j>> \o SortedDue(S \ {j})

\* variant: INSERT OR REPLACE keyed by station_name and schedule_time
RowsAfterUpsert(rows, row) ==
    IF \E r \in 1..Len(rows) :
          /\ rows[r].station_name = row.station_name
          /\ rows[r].schedule_time = row.schedule_time
    THEN [r \in 1..Len(rows) |->
             IF /\ rows[r].station_name = row.station_name
                /\ rows[r].schedule_time = row.schedule_time
             THEN [rows[r] EXCEPT !.is_active = TRUE]
             ELSE rows[r]]
    ELSE Append(rows, row)

\* INSERT INTO scheduled_recordings: a new row, is_active by default TRUE
RowsAfterInsert(rows, row) == Append(rows, row)

\* variant: the job is armed only once its row is saved
JobsAfterInsertErrorUnarmed(js, job) == js

\* the insert raised after schedule.every(...).do(job): the handler logs
\* the error and the job stays in the scheduler
JobsAfterInsertError(js, job) == Append(js, job)

\* schedule_interval_recording(station_name, station_url, interval_minutes,
\* duration, country, city): arms the job, then inserts the row; the insert
\* names the country and city columns, which only a repaired schema has
schedule_interval_recording(station, interval_minutes, duration) ==
    /\ Len(jobs) < MaxJobs
    /\ LET cadence == ArmedInterval(interval_minutes)
           job == [station |-> station, cadence |-> cadence,
                   duration |-> duration, delay |-> 0, i |-> 0,
                   created |-> now, next_run |-> now + Period(cadence),
                   runs |-> 0, armed |-> TRUE]
       IN IF schema_repaired
          THEN /\ jobs' = Append(jobs, job)
               /\ sched_rows' = RowsAfterInsert(sched_rows,
                     [station_name |-> station,
                      schedule_time |-> ScheduleTime(interval_minutes),
                      repeat_type |-> "interval", is_active |-> TRUE,
                      job |-> Len(jobs) + 1])
               /\ last_call' = [op |-> "schedule_interval_recording",
                                result |-> "scheduled"]
          ELSE /\ jobs' = JobsAfterInsertError(jobs, job)
               /\ sched_rows' = sched_rows
               /\ last_call' = [op |-> "schedule_interval_recording",
                                result |-> "error"]
    /\ UNCHANGED <<now, schema_repaired, db_schema, sched_pc, run_queue, capture,
                   recording_stats, db_recordings>>
    /\ UNCHANGED <<batchVars, recVars, connVars, capture_starts>>

\* the rows UPDATE ... WHERE station_name = ? AND schedule_time = ? matches
MatchedRows(station_name, schedule_time) ==
    {r \in 1..Len(sched_rows) :
        /\ sched_rows[r].station_name = station_name
        /\ sched_rows[r].schedule_time = schedule_time}

\* variant: a cancellation drops the call the scheduler thread is in
CaptureAfterCancelAborted(c) == NoCapture

\* cancel_scheduled_recording only updates the table: the record_station
\* call the scheduler thread is in goes on
CaptureAfterCancel(c) == c

\* cancel_scheduled_recording(station_name, schedule_time)
cancel_scheduled_recording(station_name, schedule_time) ==
    LET matched == MatchedRows(station_name, schedule_time)
        active == {r \in matched : sched_rows[r].is_active}
        rowcount == Cardinality(matched)
    IN /\ IF rowcount > 0
          THEN /\ sched_rows' = [r \in 1..Len(sched_rows) |->
                     IF r \in matched
                     THEN [sched_rows[r] EXCEPT !.is_active = FALSE]
                     ELSE sched_rows[r]]
               /\ jobs' = jobs
               /\ last_call' = [op |-> "cancel_scheduled_recording",
                                result |-> "cancelled",
                                matched |-> rowcount,
                                active_before |-> Cardinality(active),
                                jobs |-> {sched_rows[r].job : r \in matched}]
          ELSE /\ UNCHANGED <<sched_rows, jobs>>
               /\ last_call' = [op |-> "cancel_scheduled_recording",
                                result |-> "not found",
                                matched |-> 0, active_before |-> 0,
                                jobs |-> {}]
       /\ capture' = CaptureAfterCancel(capture)
       /\ UNCHANGED <<now, schema_repaired, db_schema, sched_pc, run_queue,
                      recording_stats, db_recordings>>
       /\ UNCHANGED <<batchVars, recVars, connVars, capture_starts>>

\* get_scheduled_recordings: the jobs of the rows SELECT ... WHERE
\* is_active = TRUE returns
get_scheduled_recordings ==
    {sched_rows[r].job : r \in {q \in 1..Len(sched_rows) :
                                    sched_rows[q].is_active}}

\* run_scheduler: schedule.run_pending() collects the due jobs
RunPending ==
    /\ sched_pc = "sleep"
    /\ DueJobs # {}
    /\ run_queue' = SortedDue(DueJobs)
    /\ sched_pc' = "run"
    /\ UNCHANGED <<now, jobs, sched_rows, schema_repaired, db_schema, capture,
                   recording_stats, db_recordings, last_call>>
    /\ UNCHANGED <<batchVars, recVars, connVars, capture_starts>>

\* Job.run calls the job function (interval_job, or job of the bulk
\* registration, which first sleeps delay_offset), which calls
\* record_station on the scheduler thread
JobRun ==
    /\ sched_pc = "run"
    /\ capture = NoCapture
    /\ run_queue # <<>>
    /\ LET j == Head(run_queue)
       IN /\ jobs[j].runs < MaxRuns
          /\ jobs' = [jobs EXCEPT ![j].runs = @ + 1]
          /\ capture' = [job |-> j, elapsed |-> 0,
                         duration |-> jobs[j].duration,
                         delay |-> jobs[j].delay]
    /\ UNCHANGED <<now, sched_rows, schema_repaired, db_schema, sched_pc, run_queue,
                   recording_stats, db_recordings, last_call>>
    /\ UNCHANGED <<batchVars, recVars, connVars>>

JobStart == JobRun /\ UNCHANGED capture_starts

\* the same step, with the time at which the job function calls
\* record_station (its delay_offset after now) and the number of the firing
\* kept in capture_starts
JobStartLogged ==
    /\ JobRun
    /\ capture_starts' =
          Append(capture_starts,
                 [job |-> Head(run_queue),
                  firing |-> jobs[Head(run_queue)].runs + 1,
                  start |-> now + jobs[Head(run_queue)].delay])

\* the next_run Job.run sets once job_func has returned
ScheduleNextRun(job) == now + Period(job.cadence)

\* record_station returns to interval_job; Job.run sets last_run and calls
\* _schedule_next_run; run_pending goes on to the next due job
JobReturn(outcome, db_ok) ==
    /\ sched_pc = "run"
    /\ capture # NoCapture
    /\ capture.elapsed >= capture.delay
    /\ (outcome = "TimeoutExpired") <=>
           (capture.elapsed - capture.delay >= HardTimeout(capture.duration))
    /\ recording_stats' =
           StatsAfterRecord(recording_stats, outcome, capture.duration)
    /\ db_recordings' =
           DbAfterRecord(db_recordings, outcome, capture.duration, db_ok)
    /\ jobs' = [jobs EXCEPT ![capture.job].next_run =
                    ScheduleNextRun(jobs[capture.job])]
    /\ capture' = NoCapture
    /\ run_queue' = Tail(run_queue)
    /\ sched_pc' = IF Tail(run_queue) = <<>> THEN "sleep" ELSE "run"
    /\ UNCHANGED <<now, sched_rows, schema_repaired, db_schema, last_call>>
    /\ UNCHANGED <<batchVars, recVars, connVars, capture_starts>>

\* run_scheduler: "while self.is_running" is false after run_pending and
\* time.sleep(1), and the thread function returns
SchedulerExit ==
    /\ sched_pc = "sleep"
    /\ ~is_running
    /\ sched_pc' = "stopped"
    /\ UNCHANGED <<now, jobs, sched_rows, schema_repaired, db_schema, run_queue,
                   capture, capture_starts, recording_stats, db_recordings,
                   last_call>>
    /\ UNCHANGED <<batchVars, recVars, connVars>>

\* 30 seconds pass.  The scheduler polls every second, so a due job is
\* picked up before the clock moves; the capture subprocess is killed at its
\* hard timeout.
Advance ==
    /\ now < MaxTime
    /\ ~(sched_pc = "sleep" /\ DueJobs # {})
    /\ ~(sched_pc = "run" /\ capture = NoCapture)
    /\ capture # NoCapture =>
           capture.elapsed < capture.delay + HardTimeout(capture.duration)
    /\ now' = now + 1
    /\ capture' = IF capture = NoCapture THEN capture
                  ELSE [capture EXCEPT !.elapsed = @ + 1]
    /\ UNCHANGED <<jobs, sched_rows, schema_repaired, db_schema, sched_pc, run_queue,
                   recording_stats, db_recordings, last_call>>
    /\ UNCHANGED <<batchVars, recVars, connVars, capture_starts>>

---------------------------------------------------------------------------
(* record_all_stations_now: the batch runner and its worker pool           *)

\* self.stations_by_country, in the order the catalog file lists it
Countries == <<"A", "B">>

stations_by_country ==
    [c \in {"A", "B"} |-> IF c = "A" THEN <<"a1", "a2", "a3">> ELSE <<"b1">>]

\* the station_info entries the collection loop builds for one country
CountryEntries(c) ==
    IF c \in DOMAIN stations_by_country
    THEN [i \in 1..Len(stations_by_country[c]) |->
             [name |-> stations_by_country[c][i], country |-> c]]
    ELSE <<>>

RECURSIVE AllCountryEntries(_)
AllCountryEntries(i) ==
    IF i > Len(Countries) THEN <<>>
    ELSE CountryEntries(Countries[i]) \o AllCountryEntries(i + 1)

\* variant: only an absent country_filter selects every country
SelectStationsByNameOnly(country_filter, max_stations) ==
    LET cands == IF country_filter # "None"
                 THEN CountryEntries(country_filter)
                 ELSE AllCountryEntries(1)
    IN IF max_stations # 0 /\ max_stations < Len(cands)
       THEN SubSeq(cands, 1, max_stations)
       ELSE cands

\* all_stations after the filter and the max_stations limit; an absent
\* country_filter is "None", an absent max_stations is 0
SelectStations(country_filter, max_stations) ==
    LET cands == IF country_filter \notin {"None", "All Countries"}
                 THEN CountryEntries(country_filter)
                 ELSE AllCountryEntries(1)
    IN IF max_stations # 0 /\ max_stations < Len(cands)
       THEN SubSeq(cands, 1, max_stations)
       ELSE cands

\* variant: the partial last group is not counted
TotalBatchesFloor(n, batch_size) == n \div batch_size

\* total_batches = (len(all_stations) + batch_size - 1) // batch_size
TotalBatches(n, batch_size) == (n + batch_size - 1) \div batch_size

\* start_idx = batch_num * batch_size
BatchStart(b, batch_size) == b * batch_size

\* end_idx = min(start_idx + batch_size, len(all_stations))
BatchEnd(b, batch_size, n) == Min(BatchStart(b, batch_size) + batch_size, n)

\* the positions in all_stations of all_stations[start_idx:end_idx]
BatchTasks(b, batch_size, n) ==
    (BatchStart(b, batch_size) + 1)..BatchEnd(b, batch_size, n)

CurrentBatch == BatchTasks(batch_num, max_concurrent, Len(all_stations))

\* the batch a position of all_stations is submitted in
BatchOf(t) == (t - 1) \div max_concurrent

\* record_single_station: the result of record_station with the station's
\* name and country, or a failed entry when the call raised
record_single_station(station_info, outcome, duration) ==
    IF outcome = "raises"
    THEN [station |-> station_info.name, country |-> station_info.country,
          status |-> "failed", filename |-> "N/A", error |-> "str(e)"]
    ELSE LET result == record_station(outcome, duration)
         IN [station |-> station_info.name,
             country |-> station_info.country,
             status |-> result.status, filename |-> result.filename,
             error |-> result.error]

\* the entry appended when future.result raised or timed out
UnknownEntry ==
    [station |-> "Unknown", country |-> "Unknown", status |-> "failed",
     filename |-> "N/A", error |-> "Timeout or error"]

\* variant: the except clause counts the failure and appends nothing
ResultsAfterErrorDropped(res) == res

\* results after the except clause of the future loop
ResultsAfterError(res) == Append(res, UnknownEntry)

\* where the calling thread goes after future number i of n: on to the next
\* future, or out of the with block
AfterFuture(i, n) == IF i < n THEN "wait" ELSE "shutdown"

\* variant: the except clause leaves the future loop
AfterFutureErrorBreak(i, n) == "shutdown"

\* the except clause of the future loop falls through to the next future
AfterFutureError(i, n) == AfterFuture(i, n)

\* variant: shutdown(wait=False)
ExecutorExitedNoWait == TRUE

\* variant: the pool is left once every wait has returned a result
ExecutorExitedWhenReturned ==
    \A t \in CurrentBatch : tasks[t].awaited = "returned"

\* ThreadPoolExecutor.__exit__ is shutdown(wait=True): it returns when every
\* submitted call has returned
ExecutorExited == \A t \in CurrentBatch : tasks[t].state = "finished"

InFlight == {t \in 1..Len(tasks) : tasks[t].state = "running"}

\* a station of all_stations and its future: completed is the position of
\* the future among the futures of its group in the order they were resolved
NewTask == [state |-> "unsubmitted", result |-> UnknownEntry,
            awaited |-> "no", completed |-> 0]

\* the futures of the group already resolved
Resolved == {t \in CurrentBatch : tasks[t].state = "finished"}

\* record_all_stations_now(duration, country_filter, max_concurrent,
\* max_stations): the selection, up to the first batch
RecordAllCall(duration, country_filter, m, max_stations) ==
    /\ ras_pc = "idle"
    /\ LET selected == SelectStations(country_filter, max_stations)
       IN /\ all_stations' = selected
          /\ tasks' = [t \in 1..Len(selected) |-> NewTask]
          /\ IF selected = <<>>
             THEN /\ ras_pc' = "done"
                  /\ last_call' = [op |-> "record_all_stations_now",
                                   result |-> "No stations found"]
             ELSE /\ ras_pc' = "batch"
                  /\ last_call' = last_call
    /\ max_concurrent' = m
    /\ ras_duration' = duration
    /\ batch_num' = 0
    /\ future_idx' = 0
    /\ results' = <<>>
    /\ successful_recordings' = 0
    /\ failed_recordings' = 0
    /\ UNCHANGED <<now, jobs, sched_rows, schema_repaired, db_schema, sched_pc,
                   run_queue, capture, recording_stats, db_recordings>>
    /\ UNCHANGED <<recVars, connVars, capture_starts>>

\* with ThreadPoolExecutor(max_workers=max_concurrent) as executor:
\*     batch_futures = [executor.submit(...) for station in batch_stations]
SubmitBatch ==
    /\ ras_pc = "batch"
    /\ tasks' = [t \in 1..Len(tasks) |->
                    IF t \in CurrentBatch
                    THEN [tasks[t] EXCEPT !.state = "pending"]
                    ELSE tasks[t]]
    /\ future_idx' = 1
    /\ ras_pc' = "wait"
    /\ UNCHANGED <<all_stations, max_concurrent, ras_duration, batch_num, results,
                   successful_recordings, failed_recordings,
                   recording_stats, db_recordings>>
    /\ UNCHANGED <<schedVars, recVars, connVars>>

\* a pool thread takes a submitted call and enters record_station
WorkerStart(t) ==
    /\ t \in 1..Len(tasks)
    /\ tasks[t].state = "pending"
    /\ tasks' = [tasks EXCEPT ![t].state = "running"]
    /\ UNCHANGED <<ras_pc, all_stations, max_concurrent, ras_duration, batch_num,
                   future_idx, results, successful_recordings,
                   failed_recordings, recording_stats, db_recordings>>
    /\ UNCHANGED <<schedVars, recVars, connVars>>

\* record_station returns (or raises) in record_single_station and the
\* future is resolved
WorkerFinish(t, outcome, db_ok) ==
    /\ t \in 1..Len(tasks)
    /\ tasks[t].state = "running"
    /\ tasks' = [tasks EXCEPT
                    ![t].state = "finished",
                    ![t].completed = Cardinality(Resolved) + 1,
                    ![t].result = record_single_station(all_stations[t],
                                                        outcome, ras_duration)]
    /\ recording_stats' =
           StatsAfterRecord(recording_stats, outcome, ras_duration)
    /\ db_recordings' =
           DbAfterRecord(db_recordings, outcome, ras_duration, db_ok)
    /\ UNCHANGED <<ras_pc, all_stations, max_concurrent, ras_duration, batch_num,
                   future_idx, results, successful_recordings,
                   failed_recordings>>
    /\ UNCHANGED <<schedVars, recVars, connVars>>

\* the future the loop is at
CurrentFuture == BatchStart(batch_num, max_concurrent) + future_idx

\* result = future.result(timeout=duration + 60) returns
FutureResult ==
    /\ ras_pc = "wait"
    /\ tasks[CurrentFuture].state = "finished"
    /\ LET result == tasks[CurrentFuture].result
       IN /\ results' = Append(results, result)
          /\ IF result.status = "success"
             THEN /\ successful_recordings' = successful_recordings + 1
                  /\ failed_recordings' = failed_recordings
             ELSE /\ failed_recordings' = failed_recordings + 1
                  /\ successful_recordings' = successful_recordings
    /\ tasks' = [tasks EXCEPT ![CurrentFuture].awaited = "returned"]
    /\ ras_pc' = AfterFuture(future_idx, Cardinality(CurrentBatch))
    /\ future_idx' = future_idx + 1
    /\ UNCHANGED <<all_stations, max_concurrent, ras_duration, batch_num,
                   recording_stats, db_recordings>>
    /\ UNCHANGED <<schedVars, recVars, connVars>>

\* future.result(timeout=duration + 60) raises TimeoutError: the call has
\* not returned in time
FutureTimeout ==
    /\ ras_pc = "wait"
    /\ tasks[CurrentFuture].state # "finished"
    /\ failed_recordings' = failed_recordings + 1
    /\ results' = ResultsAfterError(results)
    /\ tasks' = [tasks EXCEPT ![CurrentFuture].awaited = "timed out"]
    /\ ras_pc' = AfterFutureError(future_idx, Cardinality(CurrentBatch))
    /\ future_idx' = future_idx + 1
    /\ UNCHANGED <<all_stations, max_concurrent, ras_duration, batch_num,
                   successful_recordings, recording_stats, db_recordings>>
    /\ UNCHANGED <<schedVars, recVars, connVars>>

\* time.sleep(2): the seconds slept between two groups
GroupDelay == 2

\* the stagger a caller of record_all_stations_now(duration, country_filter,
\* max_concurrent, max_stations) can ask for: there is no such argument
RequestedStagger == 0

\* the with block is left, then "if batch_num < total_batches - 1:
\* time.sleep(2)"
ExecutorExit ==
    /\ ras_pc = "shutdown"
    /\ ExecutorExited
    /\ ras_pc' =
          IF batch_num < TotalBatches(Len(all_stations), max_concurrent) - 1
          THEN "sleep" ELSE "summary"
    /\ batch_num' = batch_num
    /\ UNCHANGED <<all_stations, max_concurrent, ras_duration, future_idx, tasks, results,
                   successful_recordings, failed_recordings,
                   recording_stats, db_recordings>>
    /\ UNCHANGED <<schedVars, recVars, connVars>>

\* time.sleep(2) is over: the next iteration of the batch loop
GroupDelayOver ==
    /\ ras_pc = "sleep"
    /\ ras_pc' = "batch"
    /\ batch_num' = batch_num + 1
    /\ UNCHANGED <<all_stations, max_concurrent, ras_duration, future_idx,
                   tasks, results, successful_recordings, failed_recordings,
                   recording_stats, db_recordings>>
    /\ UNCHANGED <<schedVars, recVars, connVars>>

\* the summary is built and returned
ReturnSummary ==
    /\ ras_pc = "summary"
    /\ ras_pc' = "done"
    /\ last_call' = [op |-> "record_all_stations_now",
                     result |-> "Bulk Recording Completed",
                     processed |-> Len(results),
                     successful |-> successful_recordings,
                     failed |-> failed_recordings]
    /\ UNCHANGED <<now, jobs, sched_rows, schema_repaired, db_schema, sched_pc,
                   run_queue, capture, recording_stats, db_recordings>>
    /\ UNCHANGED <<all_stations, max_concurrent, ras_duration, batch_num, future_idx,
                   tasks, results, successful_recordings, failed_recordings>>
    /\ UNCHANGED <<recVars, connVars, capture_starts>>

---------------------------------------------------------------------------
(* schedule_all_stations_recording: one job per selected station           *)

\* f"every_{interval_minutes}_min_bulk"
BulkScheduleTime(interval_minutes) == <<"every", interval_minutes, "min_bulk">>

Max(a, b) == IF a > b THEN a ELSE b

\* stagger_seconds
StaggerSeconds(interval_minutes, limited_count) ==
    IF limited_count > 0
    THEN Max(10, (interval_minutes * 60) \div limited_count)
    ELSE 60

\* delay_offset of the station at position i (from 0) of all_stations
DelayOffset(i, interval_minutes, limited_count) ==
    (i % 10) * StaggerSeconds(interval_minutes, limited_count)

\* the job armed for the station at position k (from 1): it sleeps
\* delay_offset seconds, then calls record_station
BulkJob(selected, k, interval_minutes, duration) ==
    [station |-> selected[k].name,
     cadence |-> ArmedInterval(interval_minutes),
     duration |-> duration,
     delay |-> SleepUnits(DelayOffset(k - 1, interval_minutes,
                                      Len(selected))),
     i |-> k - 1,
     created |-> now,
     next_run |-> now + Period(ArmedInterval(interval_minutes)),
     runs |-> 0, armed |-> TRUE]

\* the row inserted for the station at position k, armed as job number j
BulkRow(selected, k, interval_minutes, j) ==
    [station_name |-> selected[k].name,
     schedule_time |-> BulkScheduleTime(interval_minutes),
     repeat_type |-> "interval_bulk", is_active |-> TRUE, job |-> j]

\* the scheduler and the table after the loop over all_stations has handled
\* the stations from position k on: each job is armed, then its row is
\* inserted; a failed insert is counted and the loop goes on
RECURSIVE BulkLoop(_, _, _, _, _, _)
BulkLoop(selected, k, interval_minutes, duration, js, rows) ==
    IF k > Len(selected) THEN [jobs |-> js, rows |-> rows]
    ELSE LET job == BulkJob(selected, k, interval_minutes, duration)
         IN IF schema_repaired
            THEN BulkLoop(selected, k + 1, interval_minutes, duration,
                          Append(js, job),
                          RowsAfterInsert(rows,
                              BulkRow(selected, k, interval_minutes,
                                      Len(js) + 1)))
            ELSE BulkLoop(selected, k + 1, interval_minutes, duration,
                          JobsAfterInsertError(js, job), rows)

\* schedule_all_stations_recording(interval_minutes, duration,
\* country_filter, max_stations); the selection is the one of
\* record_all_stations_now
schedule_all_stations_recording(interval_minutes, duration, country_filter, max_stations) ==
    LET selected == SelectStations(country_filter, max_stations)
        after == BulkLoop(selected, 1, interval_minutes, duration, jobs,
                          sched_rows)
    IN /\ Len(jobs) + Len(selected) <= MaxJobs
       /\ jobs' = after.jobs
       /\ sched_rows' = after.rows
       /\ last_call' =
             [op |-> "schedule_all_stations_recording",
              result |-> "scheduled",
              stagger_seconds |->
                  StaggerSeconds(interval_minutes, Len(selected)),
              scheduled_count |-> Len(after.rows) - Len(sched_rows),
              failed_count |->
                  Len(selected) - (Len(after.rows) - Len(sched_rows))]
       /\ UNCHANGED <<now, schema_repaired, db_schema, sched_pc, run_queue, capture,
                      recording_stats, db_recordings>>
       /\ UNCHANGED <<batchVars, recVars, connVars, capture_starts>>

---------------------------------------------------------------------------
(* record_station called from several threads (manual_record requests,     *)
(* pool workers, the scheduler thread): update_statistics statement by     *)
(* statement.  Each "+= 1" on recording_stats is a read of the entry        *)
(* followed by a write of the incremented value; no lock is held.          *)

Recorders == 1..MaxRecorders

IdleRecorder == [pc |-> "idle", status |-> "none", duration |-> 0,
                 tmp |-> 0, updated |-> FALSE, result |-> "none",
                 filepath |-> <<>>]

\* the runs of the capture subprocess that returned
CompletedRuns ==
    {CaptureRun("no", returncode, file_exists,
                IF file_exists THEN file_size ELSE 0, text_len) :
        returncode \in {0, 1}, file_exists \in BOOLEAN,
        file_size \in {0, 1, 7}, text_len \in {0, 1, 499, 500, 501, 502}}

\* the runs that raised: the hard timeout, or any other exception
RaisedRuns ==
    {CaptureRun("TimeoutExpired", 0, FALSE, 0, 0)}
        \cup {CaptureRun("Exception", 0, FALSE, 0, text_len) :
                 text_len \in {1, 501}}

CaptureRuns == CompletedRuns \cup RaisedRuns

\* one run for each path of record_station
PathRuns == {RunOf(outcome) : outcome \in CaptureOutcomes}

\* a thread enters record_station and starts the capture subprocess
RecordCall(t, duration) ==
    /\ rec[t].pc = "idle"
    /\ rec' = [rec EXCEPT ![t].pc = "capture", ![t].duration = duration]
    /\ UNCHANGED <<recording_stats, db_recordings, last_call,
                   schedVarsNoCall, batchVars, connVars>>

\* str.rstrip(): the trailing blanks are dropped
RECURSIVE RStrip(_)
RStrip(s) ==
    IF s # <<>> /\ s[Len(s)] = " " THEN RStrip(SubSeq(s, 1, Len(s) - 1))
    ELSE s

\* safe_name: "".join(c for c in station_name if c.isalnum() or c in
\* (' ', '-', '_')).rstrip(); of the characters of the names, str.isalnum()
\* holds for "r", "1" and "2"
SafeName(station_name) ==
    LET alnum == {"r", "1", "2"}
    IN RStrip(SelectSeq(station_name,
                        LAMBDA c : c \in alnum \cup {" ", "-", "_"}))

\* country_dir and city_dir: blanks become underscores; a missing or empty
\* value becomes the given default
DirName(s, default) ==
    IF s = <<>> THEN default
    ELSE [i \in 1..Len(s) |-> IF s[i] = " " THEN "_" ELSE s[i]]

\* filepath: recordings/<country_dir>/<city_dir>/<safe_name>_<timestamp>.mp3
\* with the timestamp datetime.now().strftime("%Y%m%d_%H%M%S"), the second
\* the clock shows
FilePath(station, second) ==
    <<DirName(station.country, <<"Unknown_Country">>),
      DirName(station.city, <<"Unknown_City">>),
      SafeName(station.name), second>>

\* a thread enters record_station for a station: the directory is made, the
\* path is derived from the station and the clock, and the capture
\* subprocess is started with "-y" on that path
RecordCallAt(t, station, duration) ==
    /\ rec[t].pc = "idle"
    /\ rec' = [rec EXCEPT ![t].pc = "capture", ![t].duration = duration,
                          ![t].filepath = FilePath(station, now)]
    /\ UNCHANGED <<recording_stats, db_recordings, last_call,
                   schedVarsNoCall, batchVars, connVars>>

\* the clock of datetime.now() reaches the next second
SecondPasses ==
    /\ now < MaxSeconds
    /\ now' = now + 1
    /\ UNCHANGED <<jobs, sched_rows, schema_repaired, db_schema, sched_pc, run_queue,
                   capture, capture_starts, recording_stats, db_recordings,
                   last_call, batchVars, recVars, connVars>>

\* subprocess.run returns or raises; on the paths that classify the outcome
\* save_recording_to_db is called, then update_statistics
CaptureEnds(t, run, db_ok) ==
    /\ rec[t].pc = "capture"
    /\ LET result == RecordResult(run, rec[t].duration)
       IN /\ rec' = [rec EXCEPT
                        ![t].status = result.status,
                        ![t].result = result,
                        ![t].pc = IF RunReachesStatistics(run)
                                  THEN "read_total" ELSE "returned"]
          /\ db_recordings' =
                IF RunReachesStatistics(run)
                THEN save_recording_to_db(db_recordings, result.status,
                                          rec[t].duration, db_ok)
                ELSE db_recordings
    /\ UNCHANGED <<recording_stats, last_call, schedVarsNoCall, batchVars,
                   connVars>>

\* load_statistics, called by refresh_detailed_stats: the counters are
\* overwritten with what table recordings holds; an exception of the query
\* is caught and the counters are left as they are
load_statistics(db_ok) ==
    /\ recording_stats' = IF db_ok THEN db_recordings ELSE recording_stats
    /\ UNCHANGED <<db_recordings, rec, last_call, schedVarsNoCall,
                   batchVars, connVars>>

\* the counter an update_statistics statement reads and writes
StatsField(pc) ==
    CASE pc \in {"read_total", "write_total"} -> "total_recordings"
      [] pc \in {"read_success", "write_success"} -> "successful_recordings"
      [] pc \in {"read_failed", "write_failed"} -> "failed_recordings"
      [] OTHER -> "total_duration"

\* the left half of "self.recording_stats[k] += n": the entry is read
StatsRead(t) ==
    /\ rec[t].pc \in {"read_total", "read_success", "read_failed",
                       "read_duration"}
    /\ rec' = [rec EXCEPT
                  ![t].tmp = recording_stats[StatsField(rec[t].pc)],
                  ![t].pc = CASE rec[t].pc = "read_total" -> "write_total"
                              [] rec[t].pc = "read_success" -> "write_success"
                              [] rec[t].pc = "read_failed" -> "write_failed"
                              [] OTHER -> "write_duration"]
    /\ UNCHANGED <<recording_stats, db_recordings, last_call,
                   schedVarsNoCall, batchVars, connVars>>

\* the statement of update_statistics that follows the one at pc
AfterStatsWrite(pc, status) ==
    CASE pc = "write_total" ->
            IF status = "success" THEN "read_success" ELSE "read_failed"
      [] pc = "write_success" -> "read_duration"
      [] OTHER -> "returned"

\* the right half: the value read, incremented, is stored
StatsWrite(t) ==
    /\ rec[t].pc \in {"write_total", "write_success", "write_failed",
                       "write_duration"}
    /\ recording_stats' =
           [recording_stats EXCEPT ![StatsField(rec[t].pc)] =
               rec[t].tmp + (IF rec[t].pc = "write_duration"
                             THEN rec[t].duration ELSE 1)]
    /\ rec' = [rec EXCEPT
                  ![t].pc = AfterStatsWrite(rec[t].pc, rec[t].status),
                  ![t].updated =
                      AfterStatsWrite(rec[t].pc, rec[t].status) = "returned"]
    /\ UNCHANGED <<db_recordings, last_call, schedVarsNoCall, batchVars,
                   connVars>>

---------------------------------------------------------------------------
(* The connection monitor and test_all_stations_connection                 *)

\* what requests.head(station_url, ...) does: a response with a status
\* code, or an exception
StatusCodes == {"200", "204", "404"}

RequestErrors == {"ConnectionError", "Timeout", "Exception"}

ProbeResponses == StatusCodes \cup RequestErrors

\* variant: "except requests.RequestException:"
CaughtIfRequestException(error) == error # "Exception"

\* the bare "except:" of check_station_connection catches every exception
Caught(error) == TRUE

\* check_station_connection: "True" only for a response with status 200,
\* "False" for any other status and for a caught exception; "raised" when
\* an exception leaves the function
check_station_connection(response) ==
    IF response \in RequestErrors
    THEN IF Caught(response) THEN "False" ELSE "raised"
    ELSE IF response = "200" THEN "True" ELSE "False"

Take(seq, n) == SubSeq(seq, 1, Min(n, Len(seq)))

\* one monitor cycle: the first 2 stations of each of the first 10 countries
RECURSIVE MonitorStations(_)
MonitorStations(i) ==
    IF i > Len(Take(Countries, 10)) THEN <<>>
    ELSE Take(CountryEntries(Countries[i]), 2) \o MonitorStations(i + 1)

MonitorWindow == MonitorStations(1)

\* the entry with station name written into self.connection_status
StatusEntry(online, writer) ==
    [status |-> IF online THEN "online" ELSE "offline", writer |-> writer]

\* variant: the handler of the monitor loop returns
AfterExceptionStops == "stopped"

\* "except Exception as e:" of the monitor loop: logged, then
\* time.sleep(60)
AfterException == "backoff"

\* monitor_connections: one probe of the cycle, the write of its result and
\* the insert into table connection_status, whose exceptions the inner
\* handlers log; after the last station the thread sleeps 300 s
MonitorProbe(response, db_ok) ==
    /\ mon_pc = "probe"
    /\ LET station == MonitorWindow[mon_pos]
           status == check_station_connection(response)
       IN IF status = "raised"
          THEN /\ connection_status' = connection_status
               /\ mon_pos' = 1
               /\ mon_pc' = AfterException
          ELSE /\ connection_status' =
                     (station.name :>
                         StatusEntry(status = "True", "monitor_connections"))
                        @@ connection_status
               /\ IF mon_pos < Len(MonitorWindow)
                  THEN /\ mon_pos' = mon_pos + 1
                       /\ mon_pc' = "probe"
                  ELSE /\ mon_pos' = 1
                       /\ mon_pc' = "sleep"
    /\ UNCHANGED <<tst_pc, tst_tasks, recording_stats, db_recordings,
                   last_call, schedVarsNoCall, batchVars, recVars, display, snapshot,
                   is_running>>

\* an exception outside the inner handlers (a catalog entry without 'url' or
\* 'name') ends the cycle in the handler of the loop
MonitorRaise ==
    /\ mon_pc = "probe"
    /\ mon_pc' = AfterException
    /\ mon_pos' = 1
    /\ UNCHANGED <<connection_status, tst_pc, tst_tasks, recording_stats,
                   db_recordings, last_call, schedVarsNoCall, batchVars,
                   recVars, display, snapshot, is_running>>

\* time.sleep(300) or time.sleep(60) is over: "while self.is_running"
MonitorWake ==
    /\ mon_pc \in {"sleep", "backoff"}
    /\ mon_pc' = IF is_running THEN "probe" ELSE "stopped"
    /\ UNCHANGED <<connection_status, mon_pos, tst_pc, tst_tasks,
                   recording_stats, db_recordings, last_call,
                   schedVarsNoCall, batchVars, recVars, display, snapshot, is_running>>

\* cleanup: self.is_running = False, schedule.clear(); clear() empties the
\* scheduler's list, and the Job objects a run_pending in progress has
\* collected in its sorted list stay with it
cleanup ==
    /\ is_running
    /\ is_running' = FALSE
    /\ jobs' = [j \in 1..Len(jobs) |-> [jobs[j] EXCEPT !.armed = FALSE]]
    /\ UNCHANGED <<now, sched_rows, schema_repaired, db_schema, sched_pc, run_queue,
                   capture, capture_starts, recording_stats, db_recordings,
                   last_call, batchVars, recVars, display, snapshot, connection_status, mon_pc,
                   mon_pos, tst_pc, tst_tasks>>

\* test_all_stations_connection: every station of the catalog is submitted
\* to the pool
TestAllCall ==
    /\ tst_pc = "idle"
    /\ tst_tasks' = [i \in 1..Len(AllCountryEntries(1)) |-> "pending"]
    /\ tst_pc' = "collect"
    /\ UNCHANGED <<connection_status, mon_pc, mon_pos, recording_stats,
                   db_recordings, last_call, schedVarsNoCall, batchVars,
                   recVars, display, snapshot, is_running>>

\* test_station on a pool thread: the probe, the write of its result, then
\* the insert into table connection_status; an exception is turned into an
\* error line
test_station(i, response, db_ok) ==
    /\ i \in 1..Len(tst_tasks)
    /\ tst_tasks[i] = "pending"
    /\ LET station == AllCountryEntries(1)[i]
           status == check_station_connection(response)
       IN connection_status' =
              IF status = "raised" THEN connection_status
              ELSE (station.name :>
                       StatusEntry(status = "True", "test_station"))
                      @@ connection_status
    /\ tst_tasks' = [tst_tasks EXCEPT ![i] = "done"]
    /\ UNCHANGED <<mon_pc, mon_pos, tst_pc, recording_stats, db_recordings,
                   last_call, schedVarsNoCall, batchVars, recVars, display, snapshot,
                   is_running>>

\* the futures are collected, the pool is shut down and the summary returned
TestAllReturn ==
    /\ tst_pc = "collect"
    /\ \A i \in 1..Len(tst_tasks) : tst_tasks[i] = "done"
    /\ tst_pc' = "idle"
    /\ tst_tasks' = <<>>
    /\ last_call' = [op |-> "test_all_stations_connection",
                     result |-> "Connection Test Results"]
    /\ UNCHANGED <<connection_status, mon_pc, mon_pos, recording_stats,
                   db_recordings, schedVarsNoCall, batchVars, recVars, display, snapshot,
                   is_running>>

---------------------------------------------------------------------------
(* The readers of connection_status: get_all_stations_status and           *)
(* get_statistics_display                                                  *)

\* variant: a station counts as offline only if its entry says "offline"
StatusClassByWord(status, name) ==
    IF name \in DOMAIN status
    THEN IF status[name].status = "online" THEN "online"
         ELSE IF status[name].status = "offline" THEN "offline"
         ELSE "none"
    ELSE "none"

\* the counter get_all_stations_status raises for a station: "online" for
\* an entry with status 'online', "offline" for any other entry, "untested"
\* for a station without an entry
StatusClass(status, name) ==
    IF name \in DOMAIN status
    THEN IF status[name].status = "online" THEN "online" ELSE "offline"
    ELSE "untested"

ZeroCounts == [total |-> 0, online |-> 0, offline |-> 0, untested |-> 0]

\* the counters after one station: total raised once and one of the other
\* three counters with it, by the entry of the station read at that moment
CountStation(status, name, acc) ==
    LET class == StatusClass(status, name)
    IN [total |-> acc.total + 1,
        online |-> acc.online + (IF class = "online" THEN 1 ELSE 0),
        offline |-> acc.offline + (IF class = "offline" THEN 1 ELSE 0),
        untested |-> acc.untested + (IF class = "untested" THEN 1 ELSE 0)]

\* the loop over the stations of one country, from position i on: acc is
\* the running counts
RECURSIVE CountStations(_, _, _, _)
CountStations(status, stations, i, acc) ==
    IF i > Len(stations) THEN acc
    ELSE CountStations(status, stations, i + 1,
                       CountStation(status, stations[i].name, acc))

\* country_stats of one country: 'total' is len(stations)
CountryStats(status, c) ==
    [CountStations(status, CountryEntries(c), 1, ZeroCounts)
        EXCEPT !.total = Len(CountryEntries(c))]

\* the loop over the countries, from country number c on
RECURSIVE CountCountries(_, _, _)
CountCountries(status, c, acc) ==
    IF c > Len(Countries) THEN acc
    ELSE CountCountries(status, c + 1,
             CountStations(status, CountryEntries(Countries[c]), 1, acc))

\* the 'status' of the detailed_status entry of a station
DetailedStatus(status, name) ==
    IF name \in DOMAIN status THEN status[name].status ELSE "untested"

\* get_all_stations_status, run with no writer in between: the dictionary
\* it returns
AllStationsStatus(status) ==
    LET counts == CountCountries(status, 1, ZeroCounts)
    IN [op |-> "get_all_stations_status",
        result |-> "status",
        total_stations |-> counts.total,
        online_stations |-> counts.online,
        offline_stations |-> counts.offline,
        untested_stations |-> counts.untested,
        by_country |->
            [c \in {Countries[k] : k \in 1..Len(Countries)} |->
                CountryStats(status, c)],
        detailed_status |->
            [k \in 1..Len(AllCountryEntries(1)) |->
                [name |-> AllCountryEntries(1)[k].name,
                 status |-> DetailedStatus(status,
                                AllCountryEntries(1)[k].name)]]]

get_all_stations_status ==
    /\ last_call' = AllStationsStatus(connection_status)
    /\ UNCHANGED <<recording_stats, db_recordings, schedVarsNoCall,
                   batchVars, recVars, connVars>>

IdleSnapshot == [pc |-> "idle", pos |-> 0, counts |-> ZeroCounts,
                 detailed_status |-> <<>>]

\* get_all_stations_status statement by statement, with the writers of
\* connection_status running: the call starts with zero counters and the
\* first station of the catalog
StatusCall ==
    /\ snapshot.pc \in {"idle", "returned"}
    /\ snapshot' = [pc |-> "count", pos |-> 1, counts |-> ZeroCounts,
                    detailed_status |-> <<>>]
    /\ UNCHANGED <<connection_status, is_running, mon_pc, mon_pos, tst_pc,
                   tst_tasks, display, recording_stats, db_recordings,
                   last_call, schedVarsNoCall, batchVars, recVars>>

\* "if station['name'] in self.connection_status: ..." raises the counters
\* of the station by the entry it reads
StatusCount ==
    /\ snapshot.pc = "count"
    /\ LET name == AllCountryEntries(1)[snapshot.pos].name
       IN snapshot' =
              [snapshot EXCEPT
                  !.pc = "detail",
                  !.counts = CountStation(connection_status, name, @)]
    /\ UNCHANGED <<connection_status, is_running, mon_pc, mon_pos, tst_pc,
                   tst_tasks, display, recording_stats, db_recordings,
                   last_call, schedVarsNoCall, batchVars, recVars>>

\* detailed_status.append({... 'status': self.connection_status.get(...)
\* ...}) reads the entry of the station again, after the counters were
\* raised; after the last station the dictionary is returned
StatusDetail ==
    /\ snapshot.pc = "detail"
    /\ LET name == AllCountryEntries(1)[snapshot.pos].name
           detailed == Append(snapshot.detailed_status,
                          [name |-> name,
                           status |-> DetailedStatus(connection_status,
                                                     name)])
       IN IF snapshot.pos < Len(AllCountryEntries(1))
          THEN /\ snapshot' = [snapshot EXCEPT !.pc = "count",
                                               !.pos = @ + 1,
                                               !.detailed_status = detailed]
               /\ last_call' = last_call
          ELSE /\ snapshot' = [snapshot EXCEPT !.pc = "returned",
                                               !.detailed_status = detailed]
               /\ last_call' =
                     [op |-> "get_all_stations_status",
                      result |-> "status",
                      total_stations |-> snapshot.counts.total,
                      online_stations |-> snapshot.counts.online,
                      offline_stations |-> snapshot.counts.offline,
                      untested_stations |-> snapshot.counts.untested,
                      detailed_status |-> detailed]
    /\ UNCHANGED <<connection_status, is_running, mon_pc, mon_pos, tst_pc,
                   tst_tasks, display, recording_stats, db_recordings,
                   schedVarsNoCall, batchVars, recVars>>

IdleDisplay == [pc |-> "idle", used |-> 0, pos |-> 0]

\* get_statistics_display up to the body of the for statement: the head of
\* the display is built, the iterator over self.connection_status.items()
\* is made, which remembers the number of entries, and its first item is
\* taken; with no entry the display is returned at once
DisplayCall ==
    /\ display.pc # "iterate"
    /\ IF DOMAIN connection_status = {}
       THEN /\ display' = [pc |-> "returned", used |-> 0, pos |-> 0]
            /\ last_call' = [op |-> "get_statistics_display",
                             result |-> "display"]
       ELSE /\ display' = [pc |-> "iterate",
                           used |-> Cardinality(DOMAIN connection_status),
                           pos |-> 1]
            /\ last_call' = last_call
    /\ UNCHANGED <<connection_status, is_running, mon_pc, mon_pos, tst_pc,
                   tst_tasks, snapshot, recording_stats, db_recordings,
                   schedVarsNoCall, batchVars, recVars>>

\* a line of the display is added and the for statement asks the iterator
\* for the next item: RuntimeError
\* ("dictionary changed size during iteration") if the number of entries
\* is not the one remembered, which no handler catches; else the next line
\* of the display, or the return of the display after the last entry
DisplayNext ==
    /\ display.pc = "iterate"
    /\ IF Cardinality(DOMAIN connection_status) # display.used
       THEN /\ display' = [display EXCEPT !.pc = "raised"]
            /\ last_call' = [op |-> "get_statistics_display",
                             result |-> "RuntimeError"]
       ELSE IF display.pos = display.used
       THEN /\ display' = [display EXCEPT !.pc = "returned"]
            /\ last_call' = [op |-> "get_statistics_display",
                             result |-> "display"]
       ELSE /\ display' = [display EXCEPT !.pos = @ + 1]
            /\ last_call' = last_call
    /\ UNCHANGED <<connection_status, is_running, mon_pc, mon_pos, tst_pc,
                   tst_tasks, snapshot, recording_stats, db_recordings,
                   schedVarsNoCall, batchVars, recVars>>

---------------------------------------------------------------------------
(* The schema of radio_recordings.db: init_database and repair_database.   *)
(* A schema gives, for each table, whether it exists and which of the      *)
(* columns repair_database looks for it has, under the names they were      *)
(* declared with.                                                          *)

\* the database init_database creates where there is none: recordings with
\* country, city, file_size and error_message, scheduled_recordings without
\* interval_minutes, country and city, no table connection_status
init_database ==
    [recordings |->
        [exists |-> TRUE,
         columns |-> {"country", "city", "file_size", "error_message"}],
     scheduled_recordings |-> [exists |-> TRUE, columns |-> {}],
     connection_status |-> [exists |-> FALSE, columns |-> {}]]

\* variant: scheduled_recordings is not given its country column
MigrationStepsShort ==
    <<<<"recordings", "country">>, <<"recordings", "city">>,
      <<"recordings", "file_size">>, <<"recordings", "error_message">>,
      <<"scheduled_recordings", "interval_minutes">>,
      <<"scheduled_recordings", "city">>,
      <<"connection_status", "country">>, <<"connection_status", "city">>,
      <<"connection_status", "error_message">>>>

\* "if '<column>' not in <table>_columns: ALTER TABLE <table> ADD COLUMN
\* <column> ...", in the order of the statements
MigrationSteps ==
    <<<<"recordings", "country">>, <<"recordings", "city">>,
      <<"recordings", "file_size">>, <<"recordings", "error_message">>,
      <<"scheduled_recordings", "interval_minutes">>,
      <<"scheduled_recordings", "country">>,
      <<"scheduled_recordings", "city">>,
      <<"connection_status", "country">>, <<"connection_status", "city">>,
      <<"connection_status", "error_message">>>>

\* part 2 of repair_database from step k on: a column is added if the list
\* PRAGMA table_info gives does not hold its name; the test compares the
\* names as Python strings, while ALTER TABLE raises "duplicate column
\* name" for a column that differs from an existing one only in case, and
\* the handler of repair_database then returns False with the changes made
\* so far kept
RECURSIVE Migrate(_, _)
Migrate(schema, k) ==
    IF k > Len(MigrationSteps) THEN [schema |-> schema, ok |-> TRUE]
    ELSE LET t == MigrationSteps[k][1]
             c == MigrationSteps[k][2]
             lower(d) == IF d = "Country" THEN "country" ELSE d
         IN IF ~schema[t].exists \/ c \in schema[t].columns
            THEN Migrate(schema, k + 1)
            ELSE IF \E d \in schema[t].columns : lower(d) = c
            THEN [schema |-> schema, ok |-> FALSE]
            ELSE Migrate([schema EXCEPT ![t].columns = @ \cup {c}], k + 1)

\* repair_database on a database with the given schema: part 1 creates
\* each missing table with all its columns, part 2 adds the missing
\* columns; the backup, the indexes and verify_database_repair change no
\* table and no column and their exceptions are caught where they occur
Repaired(schema) ==
    LET created ==
            [recordings |->
                {"country", "city", "file_size", "error_message"},
             scheduled_recordings |-> {"interval_minutes", "country", "city"},
             connection_status |-> {"country", "city", "error_message"}]
        with_tables ==
            [t \in DOMAIN schema |->
                IF schema[t].exists THEN schema[t]
                ELSE [exists |-> TRUE, columns |-> created[t]]]
    IN Migrate(with_tables, 1)

\* one run of repair_database; last_call keeps what it returned, the schema
\* it found, the schema the first run found and whether a run came before
repair_database ==
    /\ LET r == Repaired(db_schema)
           again == last_call # NoCall
       IN /\ db_schema' = r.schema
          /\ schema_repaired' =
                ({"country", "city"} \subseteq
                    r.schema["scheduled_recordings"].columns)
          /\ last_call' = [op |-> "repair_database", result |-> r.ok,
                           before |-> db_schema,
                           start |-> IF again THEN last_call.start
                                     ELSE db_schema,
                           again |-> again]
    /\ UNCHANGED <<now, jobs, sched_rows, sched_pc, run_queue, capture,
                   capture_starts, recording_stats, db_recordings>>
    /\ UNCHANGED <<batchVars, recVars, connVars>>

---------------------------------------------------------------------------
\* the state after RadioDashboard.__init__: no job armed, the scheduler
\* thread started, the statistics loaded from an empty recordings table
SchedInit ==
    /\ now = 0
    /\ jobs = <<>>
    /\ sched_rows = <<>>
    /\ schema_repaired \in BOOLEAN
    /\ db_schema = IF schema_repaired THEN Repaired(init_database).schema
                   ELSE init_database
    /\ sched_pc = "sleep"
    /\ run_queue = <<>>
    /\ capture = NoCapture
    /\ capture_starts = <<>>
    /\ last_call = NoCall

\* no record_all_stations_now call in progress
BatchIdle ==
    /\ ras_pc = "idle"
    /\ all_stations = <<>>
    /\ max_concurrent = 0
    /\ ras_duration = 0
    /\ batch_num = 0
    /\ future_idx = 0
    /\ tasks = <<>>
    /\ results = <<>>
    /\ successful_recordings = 0
    /\ failed_recordings = 0

\* no thread inside record_station
RecIdle == rec = [t \in Recorders |-> IdleRecorder]

\* the connection monitor at the start of its first cycle, nothing probed
ConnInit ==
    /\ connection_status = <<>>
    /\ is_running = TRUE
    /\ mon_pc = "probe"
    /\ mon_pos = 1
    /\ tst_pc = "idle"
    /\ tst_tasks = <<>>
    /\ display = IdleDisplay
    /\ snapshot = IdleSnapshot

Init ==
    /\ SchedInit
    /\ BatchIdle
    /\ RecIdle
    /\ ConnInit
    /\ recording_stats = ZeroStats
    /\ db_recordings = ZeroStats

Next ==
    \/ \E s \in Stations, n \in IntervalInputs, d \in DurationInputs :
          schedule_interval_recording(s, n, d)
    \/ \E s \in Stations, n \in IntervalInputs :
          cancel_scheduled_recording(s, ScheduleTime(n))
    \/ RunPending
    \/ JobStart
    \/ \E o \in CaptureOutcomes : JobReturn(o, TRUE)
    \/ Advance

Spec == Init /\ [][Next]_vars

\* the scheduler idle with no job armed
SchedIdle ==
    /\ now = 0
    /\ jobs = <<>>
    /\ sched_rows = <<>>
    /\ schema_repaired = TRUE
    /\ db_schema = Repaired(init_database).schema
    /\ sched_pc = "sleep"
    /\ run_queue = <<>>
    /\ capture = NoCapture
    /\ capture_starts = <<>>
    /\ last_call = NoCall

BatchInit ==
    /\ SchedIdle
    /\ BatchIdle
    /\ RecIdle
    /\ ConnInit
    /\ recording_stats = ZeroStats
    /\ db_recordings = ZeroStats

BatchOutcomes == CaptureOutcomes \cup {"raises"}

BatchNext ==
    \/ \E d \in DurationInputs, f \in FilterInputs, m \in 1..MaxConcurrent,
          k \in 0..MaxLimit :
          RecordAllCall(d, f, m, k)
    \/ SubmitBatch
    \/ \E t \in 1..Len(tasks) : WorkerStart(t)
    \/ \E t \in 1..Len(tasks), o \in BatchOutcomes :
          WorkerFinish(t, o, TRUE)
    \/ FutureResult
    \/ FutureTimeout
    \/ ExecutorExit
    \/ GroupDelayOver
    \/ ReturnSummary

BatchSpec == BatchInit /\ [][BatchNext]_vars

\* the calling thread and the pool threads keep running, every capture
\* subprocess returns or is killed at its hard timeout, and every
\* future.result wait returns or times out
BatchFairSpec ==
    /\ BatchSpec
    /\ WF_vars(SubmitBatch)
    /\ WF_vars(\E t \in 1..Len(tasks) : WorkerStart(t))
    /\ WF_vars(\E t \in 1..Len(tasks), o \in BatchOutcomes :
                  WorkerFinish(t, o, TRUE))
    /\ WF_vars(FutureResult \/ FutureTimeout)
    /\ WF_vars(ExecutorExit)
    /\ WF_vars(GroupDelayOver)
    /\ WF_vars(ReturnSummary)

\* interval_minutes offered to schedule_interval_recording: zero, 1 minute
RegIntervalInputs == {0, 1}

\* interval_minutes offered to the bulk registration: 1 minute
BulkIntervalInputs == {1}

\* country_filter offered to the bulk registration: a country with one
\* station, a country the catalog does not hold
RegFilterInputs == {"B", "X"}

\* max_stations offered to the bulk registration: absent, 1
RegLimitInputs == {0, 1}

\* the capture outcomes of the scheduled jobs: every capture ends, well or
\* badly, within one unit of the clock
RegOutcomes == {"exit0_file", "nonzero"}

\* the firings of all jobs so far
RECURSIVE TotalRuns(_)
TotalRuns(js) ==
    IF js = <<>> THEN 0 ELSE Head(js).runs + TotalRuns(Tail(js))

\* registration and cancellation of single and bulk jobs, with the
\* scheduler thread running and inserts that can fail
RegNext ==
    \/ \E n \in RegIntervalInputs, d \in DurationInputs :
          schedule_interval_recording("s1", n, d)
    \/ \E n \in BulkIntervalInputs, d \in DurationInputs,
          f \in RegFilterInputs, k \in RegLimitInputs :
          schedule_all_stations_recording(n, d, f, k)
    \/ \E r \in 1..Len(sched_rows) :
          cancel_scheduled_recording(sched_rows[r].station_name,
                                     sched_rows[r].schedule_time)
    \/ RunPending
    \/ (TotalRuns(jobs) < MaxRegRuns /\ JobStart)
    \/ \E o \in RegOutcomes, db_ok \in BOOLEAN : JobReturn(o, db_ok)
    \/ (now < MaxRegTime /\ capture = NoCapture /\ Advance)

RegSpec == Init /\ [][RegNext]_vars

\* repair_database run on a database of any schema: each table is missing
\* or has any of the columns the repair looks for, and recordings may have
\* its country column declared as "Country"
RepairInit ==
    /\ LET names(t) == {MigrationSteps[k][2] :
                           k \in {q \in 1..Len(MigrationSteps) :
                                     MigrationSteps[q][1] = t}}
           tables(t) ==
               {[exists |-> FALSE, columns |-> {}]}
                  \cup {[exists |-> TRUE, columns |-> S] :
                           S \in SUBSET names(t)}
                  \cup (IF t = "recordings"
                        THEN {[exists |-> TRUE, columns |-> S \cup {"Country"}] :
                                 S \in SUBSET (names(t) \ {"country"})}
                        ELSE {})
       IN db_schema \in {s \in [DOMAIN init_database ->
                                   UNION {tables(t) :
                                             t \in DOMAIN init_database}] :
                            \A t \in DOMAIN init_database : s[t] \in tables(t)}
    /\ schema_repaired =
          ({"country", "city"} \subseteq
              db_schema["scheduled_recordings"].columns)
    /\ now = 0
    /\ jobs = <<>>
    /\ sched_rows = <<>>
    /\ sched_pc = "sleep"
    /\ run_queue = <<>>
    /\ capture = NoCapture
    /\ capture_starts = <<>>
    /\ last_call = NoCall
    /\ BatchIdle
    /\ RecIdle
    /\ ConnInit
    /\ recording_stats = ZeroStats
    /\ db_recordings = ZeroStats

RepairSpec == RepairInit /\ [][repair_database]_vars

\* cleanup called while the scheduler thread and the monitor run: two jobs
\* of one minute are registered, the captures end well within one unit of
\* the clock
StopNext ==
    \/ \E s \in Stations, d \in DurationInputs :
          schedule_interval_recording(s, 1, d)
    \/ RunPending
    \/ (TotalRuns(jobs) < MaxRuns /\ JobStart)
    \/ JobReturn("exit0_file", TRUE)
    \/ (now < MaxFireTime /\ Advance)
    \/ cleanup
    \/ SchedulerExit
    \/ MonitorProbe("200", TRUE)
    \/ MonitorWake

StopSpec == BatchInit /\ [][StopNext]_vars

\* interval_minutes around the hour and around two hours
MapIntervalInputs == {1, 59, 60, 61, 119, 120, 125}

\* registrations, single and bulk, over these intervals
MapNext ==
    \/ \E n \in MapIntervalInputs, d \in DurationInputs :
          schedule_interval_recording("s1", n, d)
    \/ \E n \in MapIntervalInputs, d \in DurationInputs,
          k \in RegLimitInputs :
          schedule_all_stations_recording(n, d, "B", k)

MapSpec == Init /\ [][MapNext]_vars

\* the selection of record_all_stations_now and of
\* schedule_all_stations_recording over every filter and limit
SelectNext ==
    \/ \E d \in DurationInputs, f \in FilterInputs, m \in 1..MaxConcurrent,
          k \in 0..MaxLimit :
          RecordAllCall(d, f, m, k)
    \/ \E n \in BulkIntervalInputs, d \in DurationInputs,
          f \in FilterInputs, k \in 0..MaxLimit :
          schedule_all_stations_recording(n, d, f, k)

SelectSpec == Init /\ [][SelectNext]_vars

\* one-minute jobs whose cancellation arrives while a firing is in flight;
\* the capture ends in any of its outcomes and the insert can fail
FireNext ==
    \/ \E d \in DurationInputs : schedule_interval_recording("s1", 1, d)
    \/ \E r \in 1..Len(sched_rows) :
          /\ capture # NoCapture
          /\ sched_rows[r].job = capture.job
          /\ cancel_scheduled_recording(sched_rows[r].station_name,
                                        sched_rows[r].schedule_time)
    \/ RunPending
    \/ (TotalRuns(jobs) < MaxRegRuns /\ JobStart)
    \/ \E o \in CaptureOutcomes, db_ok \in BOOLEAN : JobReturn(o, db_ok)
    \/ (now < MaxFireTime /\ Advance)

FireSpec == Init /\ [][FireNext]_vars

\* max_stations offered to the bulk registration under BulkSpec
BulkLimitInputs == {1, 2}

\* bulk jobs over the first stations of a country, registered on a repaired
\* schema, and their firings by the scheduler thread
BulkNext ==
    \/ \E d \in DurationInputs, k \in BulkLimitInputs :
          schedule_all_stations_recording(1, d, "A", k)
    \/ RunPending
    \/ JobStartLogged
    \/ \E o \in CaptureOutcomes : JobReturn(o, TRUE)
    \/ (now < MaxFireTime /\ Advance)

BulkSpec == BatchInit /\ [][BulkNext]_vars

\* status codes under ReadSpec
ReadResponses == {"200", "404"}

\* the monitor writing connection_status while request threads read it
ReadNext ==
    \/ \E r \in ReadResponses : MonitorProbe(r, TRUE)
    \/ MonitorWake
    \/ get_all_stations_status
    \/ DisplayCall
    \/ DisplayNext

ReadSpec == BatchInit /\ [][ReadNext]_vars

\* the monitor and test_all_stations_connection writing connection_status
\* while one request thread computes get_all_stations_status once; the
\* monitor finds the stations offline, the test, started before any call
\* has returned, finds them online, one pool task after the other
SnapshotNext ==
    \/ MonitorProbe("404", TRUE)
    \/ MonitorWake
    \/ (last_call = NoCall /\ TestAllCall)
    \/ \E i \in 1..Len(tst_tasks) :
          /\ \A j \in 1..(i - 1) : tst_tasks[j] = "done"
          /\ test_station(i, "200", TRUE)
    \/ TestAllReturn
    \/ (snapshot.pc = "idle" /\ StatusCall)
    \/ StatusCount
    \/ StatusDetail

SnapshotSpec == BatchInit /\ [][SnapshotNext]_vars

StatsInit == BatchInit

StatsNext ==
    \/ \E t \in Recorders, d \in DurationInputs : RecordCall(t, d)
    \/ \E t \in Recorders, run \in PathRuns, db_ok \in BOOLEAN :
          CaptureEnds(t, run, db_ok)
    \/ \E t \in Recorders : StatsRead(t)
    \/ \E t \in Recorders : StatsWrite(t)
    \/ \E db_ok \in BOOLEAN : load_statistics(db_ok)

StatsSpec == StatsInit /\ [][StatsNext]_vars

\* duration: 30 s, 60 s
RecordDurations == {1, 2}

\* one record_station call, over the runs of the capture subprocess
RecordNext ==
    \/ \E d \in RecordDurations : RecordCall(1, d)
    \/ \E run \in CaptureRuns, db_ok \in BOOLEAN : CaptureEnds(1, run, db_ok)
    \/ StatsRead(1)
    \/ StatsWrite(1)

RecordSpec == StatsInit /\ [][RecordNext]_vars

\* the stations the concurrent calls are for: one station, one whose name
\* differs from it by a character the file name drops, one with another
\* name, one of another country without a city
PathStations ==
    {[name |-> <<"r", "1">>, country |-> <<"A">>, city |-> <<"c">>],
     [name |-> <<"r", "1", "!">>, country |-> <<"A">>, city |-> <<"c">>],
     [name |-> <<"r", "2">>, country |-> <<"A">>, city |-> <<"c">>],
     [name |-> <<"r", "1">>, country |-> <<"B">>, city |-> <<>>]}

\* record_station called on several threads (a pool worker, the scheduler
\* thread, a manual_record request) while the clock runs
PathNext ==
    \/ \E t \in Recorders, s \in PathStations, d \in DurationInputs :
          RecordCallAt(t, s, d)
    \/ \E t \in Recorders, run \in PathRuns : CaptureEnds(t, run, TRUE)
    \/ SecondPasses

PathSpec == StatsInit /\ [][PathNext]_vars

ConnNext ==
    \/ \E r \in ProbeResponses, db_ok \in BOOLEAN : MonitorProbe(r, db_ok)
    \/ MonitorRaise
    \/ MonitorWake
    \/ cleanup
    \/ TestAllCall
    \/ \E i \in 1..Len(tst_tasks), r \in ProbeResponses, db_ok \in BOOLEAN :
          test_station(i, r, db_ok)
    \/ TestAllReturn

ConnSpec == BatchInit /\ [][ConnNext]_vars

\* the monitor thread is scheduled again and again: a probe or a sleep that
\* can end does end
ConnFairSpec ==
    /\ ConnSpec
    /\ WF_vars(\E r \in ProbeResponses, db_ok \in BOOLEAN :
                  MonitorProbe(r, db_ok))
    /\ WF_vars(MonitorWake)

---------------------------------------------------------------------------
(* Claims about the scheduler, under Spec                                  *)

\* cancel_scheduled_recording has reported success for job j: its row was
\* matched and set inactive
Cancelled(j) ==
    \E r \in 1..Len(sched_rows) :
        sched_rows[r].job = j /\ ~sched_rows[r].is_active

\* C1: once cancel_scheduled_recording has reported success for a registered
\* interval job, no later scheduler tick fires that job: its number of
\* firings does not change any more.
C1_NoFiringAfterCancel ==
    [][\A j \in 1..Len(jobs) :
          Cancelled(j) => jobs'[j].runs = jobs[j].runs]_vars

\* C2: a second cancel_scheduled_recording with the same station_name and
\* schedule_time, whose rows the first call has already set inactive,
\* returns "not found" and leaves the rows inactive.
C2_SecondCancelNotFound ==
    (/\ last_call.op = "cancel_scheduled_recording"
     /\ last_call.matched > 0
     /\ last_call.active_before = 0)
        => /\ last_call.result = "not found"
           /\ \A r \in 1..Len(sched_rows) :
                 sched_rows[r].job \in last_call.jobs =>
                    ~sched_rows[r].is_active

\* C8: a single-station job with an interval of n minutes has fired exactly
\* k times once the k-th tick after its registration, n minutes apart, has
\* been handled by the scheduler thread.
C8_OneFiringPerInterval ==
    \A j \in 1..Len(jobs) :
        \A k \in 1..3 :
            (/\ \E r \in 1..Len(sched_rows) : sched_rows[r].job = j
             /\ now = jobs[j].created + k * Period(jobs[j].cadence)
             /\ sched_pc = "sleep"
             /\ j \notin DueJobs)
                => jobs[j].runs = k

\* C22: registry mutations are serialized with the tick scan of the
\* scheduler: while a schedule.run_pending scan is running, no registration
\* adds a job and no cancellation changes a row.
C22_MutationsSerializedWithScan ==
    [][sched_pc = "run" =>
          /\ Len(jobs') = Len(jobs)
          /\ Len(sched_rows') = Len(sched_rows)
          /\ \A r \in 1..Len(sched_rows) :
                sched_rows'[r].is_active = sched_rows[r].is_active]_vars

---------------------------------------------------------------------------
(* Claims about record_all_stations_now, under BatchSpec                   *)

\* C3: during record_all_stations_now with max_concurrent = M, the number of
\* record_station calls started and not yet returned is at most M in every
\* state, also after a future.result wait has timed out.
C3_InFlightAtMostM == Cardinality(InFlight) <= max_concurrent

\* a wait has timed out on a call that is still running, M calls are in
\* flight and more stations remain for later groups
C3_Witness ==
    /\ Cardinality(InFlight) = max_concurrent
    /\ max_concurrent = 2
    /\ Len(all_stations) > max_concurrent
    /\ \E t \in InFlight : tasks[t].awaited = "timed out"

\* C4: when record_all_stations_now returns normally, results holds exactly
\* one entry per selected station, every future has been consumed once, and
\* successful_recordings + failed_recordings = len(results), also when
\* record_station raised or a future.result wait timed out.
C4_OneResultPerTask ==
    (ras_pc = "done" /\ all_stations # <<>>) =>
        /\ Len(results) = Len(all_stations)
        /\ successful_recordings + failed_recordings = Len(results)
        /\ \A t \in 1..Len(tasks) : tasks[t].awaited # "no"
        /\ last_call.processed = Len(all_stations)

\* the call has returned after one wait timed out and one call raised
C4_Witness ==
    /\ ras_pc = "done"
    /\ \E t \in 1..Len(tasks) : tasks[t].awaited = "timed out"
    /\ \E t \in 1..Len(tasks) :
          /\ tasks[t].awaited = "returned"
          /\ tasks[t].result.filename = "N/A"

\* C5: when the capture subprocess exceeds its hard timeout, the status of
\* the returned result denotes Timeout and differs from the status returned
\* for a non-zero exit or a missing output file.
C5_TimeoutStatusDistinct ==
    \A t \in 1..Len(tasks) :
        (tasks[t].state = "finished"
            /\ tasks[t].result.error = "Recording timeout") =>
        /\ tasks[t].result.status #
               record_station("nonzero", ras_duration).status
        /\ tasks[t].result.status #
               record_station("exit0_nofile", ras_duration).status

\* C6: a task that raised or whose wait timed out becomes a failed result,
\* and every other task of the group and of the later groups is still
\* executed and reported: when the call returns every selected station has
\* been executed and awaited, every returned future's result is in results,
\* and there is one failed "Unknown" entry per timed out wait.
C6_FailureIsolated ==
    (ras_pc = "done" /\ all_stations # <<>>) =>
        /\ \A t \in 1..Len(tasks) :
              /\ tasks[t].state = "finished"
              /\ tasks[t].awaited \in {"returned", "timed out"}
              /\ tasks[t].awaited = "returned" =>
                    \E i \in 1..Len(results) : results[i] = tasks[t].result
              /\ tasks[t].result.filename = "N/A" =>
                    tasks[t].result.status = "failed"
        /\ Cardinality({i \in 1..Len(results) : results[i] = UnknownEntry})
              = Cardinality({t \in 1..Len(tasks) :
                                tasks[t].awaited = "timed out"})
        /\ UnknownEntry.status = "failed"

\* the first station's wait timed out, and a station of a later group was
\* still executed and reported with its own result
C6_Witness ==
    /\ ras_pc = "done"
    /\ Len(tasks) > max_concurrent
    /\ tasks[1].awaited = "timed out"
    /\ tasks[Len(tasks)].awaited = "returned"
    /\ tasks[Len(tasks)].result.status = "success"
    /\ \E t \in 1..Len(tasks) : tasks[t].result.filename = "N/A"

\* ceil(n / m) for m > 0
CeilDiv(n, m) == CHOOSE g \in 0..n : (g - 1) * m < n /\ n <= g * m

\* the groups of n stations under batch size m are ceil(n/m) consecutive
\* ranges of all_stations, of size m except possibly the last
GroupsPartition(n, m) ==
    LET g == TotalBatches(n, m)
    IN /\ g = CeilDiv(n, m)
       /\ \A b \in 0..(g - 1) :
             /\ BatchTasks(b, m, n) =
                    (b * m + 1)..(IF b < g - 1 THEN (b + 1) * m ELSE n)
             /\ BatchTasks(b, m, n) # {}
             /\ b < g - 1 => Cardinality(BatchTasks(b, m, n)) = m

\* C7: the selected stations are split, in input order, into ceil(K/M)
\* groups of size M (the last possibly smaller), and the groups run one
\* after the other: no station of a group is submitted or started before
\* every station of the groups before it has finished; 25 stations with
\* M = 5 make 5 groups of 5, and the call returns one result per station.
C7_GroupsSequential ==
    /\ GroupsPartition(25, 5)
    /\ TotalBatches(25, 5) = 5
    /\ \A b \in 0..4 : Cardinality(BatchTasks(b, 5, 25)) = 5
    /\ all_stations # <<>> =>
          /\ GroupsPartition(Len(all_stations), max_concurrent)
          /\ \A t, u \in 1..Len(tasks) :
                (BatchOf(u) < BatchOf(t) /\ tasks[t].state # "unsubmitted")
                    => tasks[u].state = "finished"
          /\ ras_pc \in {"wait", "shutdown"} =>
                \A t \in 1..Len(tasks) :
                    tasks[t].state \in {"pending", "running"} =>
                        t \in CurrentBatch
          /\ ras_pc = "done" => Len(results) = Len(all_stations)

\* a station of the second group runs after a wait of the first group
\* timed out, with a smaller last group
C7_Witness ==
    /\ Len(all_stations) = 3
    /\ max_concurrent = 2
    /\ batch_num = 1
    /\ tasks[3].state = "running"
    /\ tasks[1].awaited = "timed out"

---------------------------------------------------------------------------
(* Claims about the statistics, under StatsSpec                            *)

\* the record_station calls that have run update_statistics to its end
UpdatesDone == {t \in Recorders : rec[t].pc = "returned" /\ rec[t].updated}

\* C9: statistics updates are atomic increments: once N concurrent
\* record_station calls have run update_statistics and returned,
\* total_recordings has grown by exactly N, and so has
\* successful_recordings + failed_recordings.
C9_NoLostUpdate ==
    (\A t \in Recorders : rec[t].pc \in {"idle", "returned"}) =>
        /\ recording_stats.total_recordings = Cardinality(UpdatesDone)
        /\ recording_stats.successful_recordings
              + recording_stats.failed_recordings = Cardinality(UpdatesDone)

---------------------------------------------------------------------------
(* Claims about the connection status table, under ConnSpec                *)

\* C10: every entry of connection_status was written by the Connection
\* Monitor loop; no other thread writes an entry.
C10_SingleWriter ==
    \A s \in DOMAIN connection_status :
        connection_status[s].writer = "monitor_connections"

---------------------------------------------------------------------------
(* Claims about one record_station call, under RecordSpec                  *)

\* C12: every record_station call is counted in the statistics once,
\* whatever its outcome: when the call has returned, total_recordings has
\* grown by 1, and a call that did not succeed (failure, timeout, unexpected
\* error) has raised failed_recordings by 1.
C12_EveryCallCounted ==
    rec[1].pc = "returned" =>
        /\ recording_stats.total_recordings = 1
        /\ rec[1].result.status # "success" =>
              recording_stats.failed_recordings = 1

\* what the claim says of the result returned for a run
ClassifiedAsClaimed(run, result) ==
    /\ result.status \in {"success", "failed"}
    /\ run.raised = "no" =>
          ((result.status = "success")
              <=> (run.returncode = 0 /\ run.file_exists))
    /\ run.raised # "no" => result.status = "failed"
    /\ result.status = "success" => result.file_size = run.file_size
    /\ result.status = "failed" => result.file_size = 0
    /\ (result.error # "None") <=> (result.status # "success")
    /\ result.error = "stderr" =>
          /\ result.error_len <= 500
          /\ result.error_len <= run.text_len
          /\ run.text_len <= 500 => result.error_len = run.text_len

\* C19: the status record_station returns is success if and only if the
\* capture tool exited with code 0 and the output file exists, and then
\* file_size is the measured size; otherwise the status is failed and
\* file_size is 0; the error detail is present if and only if the status is
\* not success, and the tool's diagnostic is cut to at most 500 characters.
C19_OutcomeClassification ==
    [][\A run \in CaptureRuns, db_ok \in BOOLEAN :
          CaptureEnds(1, run, db_ok) =>
              ClassifiedAsClaimed(run, rec'[1].result)]_vars

\* a failed capture has returned a diagnostic cut to 500 characters after
\* the statistics were updated
C19_Witness ==
    /\ rec[1].pc = "returned"
    /\ rec[1].updated
    /\ rec[1].result.status = "failed"
    /\ rec[1].result.error = "stderr"
    /\ rec[1].result.error_len = 500

---------------------------------------------------------------------------
(* Claims about the statistics and table recordings, under StatsSpec       *)

\* C13: the in-memory counters total_recordings, successful_recordings,
\* failed_recordings and total_duration never decrease, whatever the
\* sequence of task completions, statistics refreshes and persistence
\* failures.
C13_CountersMonotonic ==
    [][\A k \in DOMAIN recording_stats :
          recording_stats'[k] >= recording_stats[k]]_vars

---------------------------------------------------------------------------
(* Claims about the connection monitor, under ConnSpec and ConnFairSpec    *)

\* C16 as stated: an exception raised anywhere in a cycle (in the probe, in
\* the insert into table connection_status, or elsewhere) puts the loop into
\* its backoff sleep, after which another cycle starts.
C16_EveryExceptionBacksOff ==
    [][\A r \in ProbeResponses :
          (\/ MonitorRaise
           \/ MonitorProbe(r, FALSE)
           \/ (r \in RequestErrors /\ MonitorProbe(r, TRUE)))
              => mon_pc' = "backoff"]_vars

\* C16: the monitor loop keeps cycling while is_running is true.  An
\* exception of the probe is turned into "offline" and an exception of the
\* insert is logged, and in both cases the cycle goes on with the next
\* station without a backoff; any other exception of the cycle is swallowed
\* by the handler of the loop, which sleeps 60 s; after either sleep
\* another cycle starts if is_running is still true, and the loop is left
\* only when is_running has been cleared.
C16_MonitorKeepsCycling ==
    /\ [][/\ MonitorRaise => mon_pc' = "backoff"
          /\ \A r \in ProbeResponses, db_ok \in BOOLEAN :
                MonitorProbe(r, db_ok) => mon_pc' \in {"probe", "sleep"}
          /\ (mon_pc \in {"sleep", "backoff"} /\ mon_pc' # mon_pc) =>
                mon_pc' = IF is_running THEN "probe" ELSE "stopped"
          /\ mon_pc' = "stopped" => ~is_running'
          /\ mon_pc = "stopped" => mon_pc' = "stopped"]_vars
    /\ []<>(mon_pc = "probe" \/ ~is_running)

\* the loop is in its backoff sleep after an exception in a cycle that had
\* already written a result, while is_running is true
C16_Witness ==
    /\ mon_pc = "backoff"
    /\ is_running
    /\ \E s \in DOMAIN connection_status :
          connection_status[s].writer = "monitor_connections"

\* the stations a monitor cycle probes
WindowNames == {MonitorWindow[i].name : i \in 1..Len(MonitorWindow)}

\* C17: the window of the monitor rotates: the catalog holds more stations
\* than one window, so if the monitor completes cycle after cycle, some
\* cycle eventually probes a station outside the window of the first cycle
\* (unless the dashboard is shut down first).
C17_WindowRotates ==
    []<>(mon_pc = "sleep") =>
        <>(\/ ~is_running
           \/ \E s \in DOMAIN connection_status :
                 /\ connection_status[s].writer = "monitor_connections"
                 /\ s \notin WindowNames)

\* C18: check_station_connection never raises to its caller: it returns
\* true for a response with status 200 and false for every other status and
\* for every exception of the request, so a probe of the monitor always
\* ends in a written entry, "online" only for status 200.
C18_ProbeNeverRaises ==
    [][\A r \in ProbeResponses, db_ok \in BOOLEAN :
          MonitorProbe(r, db_ok) =>
              /\ check_station_connection(r) \in {"True", "False"}
              /\ (check_station_connection(r) = "True") <=> (r = "200")
              /\ mon_pc' # "backoff"
              /\ LET name == MonitorWindow[mon_pos].name
                 IN /\ name \in DOMAIN connection_status'
                    /\ connection_status'[name].status =
                          IF r = "200" THEN "online" ELSE "offline"]_vars

\* the monitor has written "offline" for one station and "online" for
\* another in the same cycle
C18_Witness ==
    /\ mon_pc = "probe"
    /\ mon_pos = 3
    /\ \E s, u \in DOMAIN connection_status :
          /\ connection_status[s] = StatusEntry(FALSE, "monitor_connections")
          /\ connection_status[u] = StatusEntry(TRUE, "monitor_connections")

---------------------------------------------------------------------------
(* Claims about registration and cancellation, under RegSpec               *)

\* C11: a registration with an invalid job definition returns an error
\* outcome and arms nothing: schedule_interval_recording with an interval of
\* zero minutes or less, and schedule_all_stations_recording whose filter
\* selects no station, leave the armed jobs as they were.
C11_InvalidRegistrationRejected ==
    [][/\ \A n \in RegIntervalInputs, d \in DurationInputs :
             (n <= 0 /\ schedule_interval_recording("s1", n, d)) =>
                 /\ last_call'.result = "error"
                 /\ jobs' = jobs
       /\ \A n \in BulkIntervalInputs, d \in DurationInputs,
             f \in RegFilterInputs, k \in RegLimitInputs :
             (/\ SelectStations(f, k) = <<>>
              /\ schedule_all_stations_recording(n, d, f, k)) =>
                 /\ last_call'.result = "error"
                 /\ jobs' = jobs]_vars

\* C14: cancellation is terminal: a row of scheduled_recordings whose
\* is_active flag has been cleared stays in the table, for the same job,
\* with the flag cleared, whatever is registered, cancelled or fired later.
C14_CancellationTerminal ==
    [][\A r \in 1..Len(sched_rows) :
          ~sched_rows[r].is_active =>
              /\ r <= Len(sched_rows')
              /\ sched_rows'[r].job = sched_rows[r].job
              /\ ~sched_rows'[r].is_active]_vars

\* a cancelled registration was made again for the same station and
\* schedule_time: the old row is inactive, the new one active, and a job has
\* fired
C14_Witness ==
    /\ \E r, q \in 1..Len(sched_rows) :
          /\ r < q
          /\ sched_rows[r].station_name = sched_rows[q].station_name
          /\ sched_rows[r].schedule_time = sched_rows[q].schedule_time
          /\ ~sched_rows[r].is_active
          /\ sched_rows[q].is_active
    /\ \E j \in 1..Len(jobs) : jobs[j].runs > 0

\* C15: a job with an interval rule is re-armed after every firing until it
\* is cancelled: when a firing of a job that is not cancelled returns, the
\* job is armed for now plus its interval; when a firing of a cancelled job
\* returns, the job is not armed again.  (No operation registers a job with
\* the repeat rule "once".)
C15_RearmedUntilCancelled ==
    [][\A j \in 1..Len(jobs) :
          (capture.job = j /\ capture' = NoCapture) =>
              IF Cancelled(j)
              THEN jobs'[j].next_run = jobs[j].next_run
              ELSE jobs'[j].next_run = now + Period(jobs[j].cadence)]_vars

\* the insert of job j's row failed
Unsaved(j) == \A r \in 1..Len(sched_rows) : sched_rows[r].job # j

\* C20: a persistence failure blocks neither scheduling nor execution: a
\* record_station call whose insert into table recordings fails still
\* returns and updates the statistics with the outcome of the capture; a
\* registration whose insert into scheduled_recordings fails has armed its
\* job all the same, and that job is picked up and fired at its due tick.
C20_PersistenceFailureDoesNotBlock ==
    /\ [][/\ \A o \in RegOutcomes :
                JobReturn(o, FALSE) =>
                    /\ recording_stats' =
                          update_statistics(recording_stats,
                              record_station(o, capture.duration).status,
                              capture.duration)
                    /\ db_recordings' = db_recordings
                    /\ capture' = NoCapture
          /\ \A n \in RegIntervalInputs, d \in DurationInputs :
                (~schema_repaired
                    /\ schedule_interval_recording("s1", n, d)) =>
                    /\ sched_rows' = sched_rows
                    /\ Len(jobs') = Len(jobs) + 1
                    /\ jobs'[Len(jobs')].next_run =
                          now + Period(ArmedInterval(n))
          /\ \A n \in BulkIntervalInputs, d \in DurationInputs,
                f \in RegFilterInputs, k \in RegLimitInputs :
                (~schema_repaired
                    /\ schedule_all_stations_recording(n, d, f, k)) =>
                    /\ sched_rows' = sched_rows
                    /\ Len(jobs') = Len(jobs) + Len(SelectStations(f, k))
                    /\ \A j \in (Len(jobs) + 1)..Len(jobs') :
                          jobs'[j].next_run = now + Period(ArmedInterval(n))
          /\ RunPending =>
                \A j \in DueJobs :
                    \E q \in 1..Len(run_queue') : run_queue'[q] = j
          /\ (JobStart /\ Unsaved(Head(run_queue))) =>
                jobs'[Head(run_queue)].runs =
                    jobs[Head(run_queue)].runs + 1]_vars
    /\ [](\A j \in 1..Len(jobs) :
            (/\ Unsaved(j)
             /\ Period(jobs[j].cadence) > 0
             /\ sched_pc = "sleep") => now <= jobs[j].next_run)

\* a job whose row could not be inserted has fired, and the row of its
\* recording could not be inserted either, yet the statistics count it
C20_Witness ==
    /\ \E j \in 1..Len(jobs) :
          /\ Unsaved(j)
          /\ Period(jobs[j].cadence) > 0
          /\ jobs[j].runs > 0
    /\ capture = NoCapture
    /\ db_recordings.total_recordings < recording_stats.total_recordings

---------------------------------------------------------------------------
(* Claims about the interval mapping, under MapSpec                        *)

\* the cadence the claim states for interval_minutes
ClaimedCadence(interval_minutes) ==
    IF interval_minutes >= 60
    THEN [interval |-> interval_minutes \div 60, unit |-> "hours"]
    ELSE [interval |-> interval_minutes, unit |-> "minutes"]

\* C24: a job registered with interval_minutes >= 60 is armed every
\* floor(interval_minutes / 60) hours (60..119 minutes: every hour), a job
\* registered with interval_minutes < 60 is armed every interval_minutes
\* minutes, and schedule_interval_recording and
\* schedule_all_stations_recording arm the same cadence.
C24_IntervalMapping ==
    [][/\ \A n \in MapIntervalInputs, d \in DurationInputs :
             schedule_interval_recording("s1", n, d) =>
                 /\ Len(jobs') = Len(jobs) + 1
                 /\ jobs'[Len(jobs')].cadence = ClaimedCadence(n)
                 /\ (60 <= n /\ n <= 119) =>
                       jobs'[Len(jobs')].next_run = now + Minutes(60)
                 /\ n < 60 => jobs'[Len(jobs')].next_run = now + Minutes(n)
       /\ \A n \in MapIntervalInputs, d \in DurationInputs,
             k \in RegLimitInputs :
             schedule_all_stations_recording(n, d, "B", k) =>
                 /\ Len(jobs') = Len(jobs) + 1
                 /\ jobs'[Len(jobs')].cadence = ClaimedCadence(n)
                 /\ jobs'[Len(jobs')].next_run =
                       now + Period(ClaimedCadence(n))]_vars

\* a single job registered with 119 minutes is armed every hour and a bulk
\* job registered with 125 minutes every 2 hours
C24_Witness ==
    /\ Len(jobs) = 2
    /\ Len(sched_rows) = 2
    /\ sched_rows[1].schedule_time = ScheduleTime(119)
    /\ jobs[1].cadence = [interval |-> 1, unit |-> "hours"]
    /\ sched_rows[2].schedule_time = BulkScheduleTime(125)
    /\ jobs[2].cadence = [interval |-> 2, unit |-> "hours"]

---------------------------------------------------------------------------
(* Claims about the bulk selection, under SelectSpec                       *)

\* the candidate list the claim states for a country filter
ClaimedCandidates(country_filter) ==
    IF country_filter \in {"None", "All Countries"}
    THEN AllCountryEntries(1)
    ELSE CountryEntries(country_filter)

\* the task list the claim states: the first min(max_stations, |candidates|)
\* candidates for a positive max_stations, all of them for 0 (absent)
ClaimedSelection(country_filter, max_stations) ==
    LET cands == ClaimedCandidates(country_filter)
    IN IF max_stations > 0
       THEN SubSeq(cands, 1, Min(max_stations, Len(cands)))
       ELSE cands

\* C28: bulk expansion selects a prefix of the filtered catalog: the
\* candidates are the stations of the country of the filter in catalog
\* order, or all stations of all countries for no filter or "All
\* Countries"; the selected list is the first min(max_stations,
\* |candidates|) candidates for a positive max_stations and all candidates
\* for an absent or zero max_stations; record_all_stations_now and
\* schedule_all_stations_recording select the same list.
C28_SelectionIsPrefix ==
    [][/\ \A d \in DurationInputs, f \in FilterInputs,
             m \in 1..MaxConcurrent, k \in 0..MaxLimit :
             RecordAllCall(d, f, m, k) =>
                 all_stations' = ClaimedSelection(f, k)
       /\ \A n \in BulkIntervalInputs, d \in DurationInputs,
             f \in FilterInputs, k \in 0..MaxLimit :
             schedule_all_stations_recording(n, d, f, k) =>
                 /\ Len(jobs') = Len(jobs) + Len(ClaimedSelection(f, k))
                 /\ \A i \in 1..Len(ClaimedSelection(f, k)) :
                       jobs'[Len(jobs) + i].station =
                           ClaimedSelection(f, k)[i].name]_vars

\* record_all_stations_now has selected the first 2 of the 3 stations of a
\* country, and the bulk registration has armed jobs for the same 2 stations
C28_Witness ==
    /\ all_stations = SubSeq(CountryEntries("A"), 1, 2)
    /\ Len(jobs) = 2
    /\ \A i \in 1..2 : jobs[i].station = all_stations[i].name
    /\ last_call.op = "schedule_all_stations_recording"

---------------------------------------------------------------------------
(* Claims about a cancellation during a firing, under FireSpec             *)

---------------------------------------------------------------------------
(* Claims about the result order and the delay between groups, under       *)
(* BatchSpec                                                               *)

\* the position in results of the entry of a station whose wait returned
ResultPos(t) ==
    CHOOSE i \in 1..Len(results) : results[i].station = all_stations[t].name

Returned == {t \in 1..Len(tasks) : tasks[t].awaited = "returned"}

\* C26: in the collection record_all_stations_now builds, all results of a
\* group precede all results of the next group, and within one group the
\* results appear in the order in which the tasks completed.
C26_ResultsInCompletionOrder ==
    ras_pc = "done" =>
        \A t, u \in Returned :
            /\ BatchOf(t) < BatchOf(u) => ResultPos(t) < ResultPos(u)
            /\ (/\ BatchOf(t) = BatchOf(u)
                /\ tasks[t].completed < tasks[u].completed)
                   => ResultPos(t) < ResultPos(u)

\* C27: a delay between two consecutive groups is inserted only when
\* staggering is requested, its length is the requested stagger, and no
\* delay follows the last group.
C27_DelayOnlyWhenRequested ==
    ras_pc = "sleep" =>
        /\ RequestedStagger > 0
        /\ GroupDelay = RequestedStagger
        /\ batch_num < TotalBatches(Len(all_stations), max_concurrent) - 1


\* C25: under fairness, and with every capture subprocess returning or
\* killed at its hard timeout, a record_all_stations_now call over any
\* selection eventually returns: every group is submitted and completed,
\* and the call does not wait forever on a task.
C25_BatchEventuallyReturns ==
    /\ (ras_pc # "idle") ~>
          (/\ ras_pc = "done"
           /\ last_call.op = "record_all_stations_now"
           /\ \A t \in 1..Len(tasks) : tasks[t].state = "finished")
    /\ [](ras_pc = "done" /\ all_stations # <<>> =>
            batch_num = TotalBatches(Len(all_stations), max_concurrent) - 1)

\* the call has returned its summary over 2 groups after a wait of the
\* first group timed out
C25_Witness ==
    /\ ras_pc = "done"
    /\ last_call.result = "Bulk Recording Completed"
    /\ batch_num = 1
    /\ tasks[1].awaited = "timed out"

---------------------------------------------------------------------------
(* Claims about the firings of a bulk registration, under BulkSpec         *)

\* the captures fired by the scheduler that are in flight
ScheduledInFlight ==
    IF capture # NoCapture /\ capture.elapsed >= capture.delay THEN 1 ELSE 0

\* C29: what the outcome message of schedule_all_stations_recording
\* promises holds at every firing: the captures of stations i and i+1 of
\* the same group of 10 start stagger_seconds apart, and at most
\* min(10, scheduled_count) captures fired by the scheduler are in flight.
C29_BulkPromiseKept ==
    last_call.op = "schedule_all_stations_recording" =>
        /\ \A a, b \in 1..Len(capture_starts) :
              (/\ capture_starts[b].job = capture_starts[a].job + 1
               /\ capture_starts[b].firing = capture_starts[a].firing
               /\ jobs[capture_starts[b].job].i =
                     jobs[capture_starts[a].job].i + 1
               /\ jobs[capture_starts[b].job].i % 10 # 0)
                  => capture_starts[b].start - capture_starts[a].start =
                        SleepUnits(last_call.stagger_seconds)
        /\ ScheduledInFlight <= Min(10, last_call.scheduled_count)

---------------------------------------------------------------------------
(* Claims about the readers of connection_status, under ReadSpec           *)

\* C21: every core-exposed operation returns an outcome value and never
\* raises to its caller, also while the monitor thread is inserting entries
\* into connection_status: no call of get_statistics_display or
\* get_all_stations_status ends in an exception.
C21_OperationsNeverRaise ==
    /\ display.pc # "raised"
    /\ last_call # NoCall => last_call.result \in {"status", "display"}

\* the stations of the catalog
CatalogNames ==
    {AllCountryEntries(1)[k].name : k \in 1..Len(AllCountryEntries(1))}

\* C30: get_all_stations_status, run with no concurrent writer, counts an
\* endpoint without a connection_status entry as untested, and returns
\* total_stations = online_stations + offline_stations + untested_stations,
\* the same identity for every country, and one detailed_status entry per
\* station of the catalog.
C30_StatusCountsAddUp ==
    [][get_all_stations_status =>
          LET r == last_call'
          IN /\ r.total_stations = Cardinality(CatalogNames)
             /\ r.total_stations = r.online_stations + r.offline_stations
                                       + r.untested_stations
             /\ r.untested_stations =
                   Cardinality(CatalogNames \ DOMAIN connection_status)
             /\ r.online_stations =
                   Cardinality({s \in DOMAIN connection_status :
                                   connection_status[s].status = "online"})
             /\ \A c \in DOMAIN r.by_country :
                   /\ r.by_country[c].total = Len(stations_by_country[c])
                   /\ r.by_country[c].total =
                         r.by_country[c].online + r.by_country[c].offline
                            + r.by_country[c].untested
             /\ Len(r.detailed_status) = Cardinality(CatalogNames)
             /\ \A s \in CatalogNames :
                   Cardinality({k \in 1..Len(r.detailed_status) :
                                   r.detailed_status[k].name = s}) = 1
             /\ \A k \in 1..Len(r.detailed_status) :
                   (r.detailed_status[k].status = "untested") <=>
                      (r.detailed_status[k].name
                          \notin DOMAIN connection_status)]_vars

\* get_all_stations_status has returned counts with an online, an offline
\* and two untested stations
C30_Witness ==
    /\ last_call.op = "get_all_stations_status"
    /\ last_call.online_stations = 1
    /\ last_call.offline_stations = 1
    /\ last_call.untested_stations = 2
    /\ last_call.by_country["A"].untested = 1


---------------------------------------------------------------------------
(* Claims about the correspondence of results and tasks, under BatchSpec   *)

\* C31: every entry of the results collection of record_all_stations_now
\* names the station and country of the task that produced it, also when
\* the wait on that task's future raised or timed out: entry i of results
\* carries the station and country of selected station i.
C31_ResultsNameTheirTask ==
    \A i \in 1..Len(results) :
        /\ results[i].station = all_stations[i].name
        /\ results[i].country = all_stations[i].country


---------------------------------------------------------------------------
(* Claims about the outcome a registration reports, under RegSpec          *)

\* C32: the reported outcome of schedule_interval_recording agrees with the
\* scheduler: it returns the error message only if the call armed no timer
\* and the success message only if the call armed exactly one timer, also
\* when the insert into scheduled_recordings fails.
C32_OutcomeAgreesWithScheduler ==
    [][\A n \in RegIntervalInputs, d \in DurationInputs :
          schedule_interval_recording("s1", n, d) =>
              /\ last_call'.result = "error" => Len(jobs') = Len(jobs)
              /\ last_call'.result = "scheduled" =>
                     Len(jobs') = Len(jobs) + 1]_vars


\* C33: after the registration loop of schedule_all_stations_recording,
\* scheduled_count + failed_count is the number of selected stations and
\* the number of timers the call armed is scheduled_count: a station
\* counted as failed to schedule has no armed timer.
C33_CountsAgreeWithTimers ==
    [][\A n \in BulkIntervalInputs, d \in DurationInputs,
          f \in RegFilterInputs, k \in RegLimitInputs :
          schedule_all_stations_recording(n, d, f, k) =>
              /\ last_call'.scheduled_count + last_call'.failed_count =
                     Len(SelectStations(f, k))
              /\ Len(jobs') - Len(jobs) = last_call'.scheduled_count]_vars


---------------------------------------------------------------------------
(* Claims about the persisted and the armed jobs, under RegSpec            *)

\* C34: the persisted active set and the armed set stay in step: after any
\* sequence of register and cancel operations a job is listed as active by
\* get_scheduled_recordings if and only if a timer for it is armed in the
\* scheduler.
C34_ActiveIffArmed == get_scheduled_recordings = ArmedJobs


---------------------------------------------------------------------------
(* Claims about get_all_stations_status with concurrent writers, under     *)
(* SnapshotSpec                                                            *)

\* the number of detailed_status entries of r with the given status
DetailedCount(r, status) ==
    Cardinality({k \in 1..Len(r.detailed_status) :
                    r.detailed_status[k].status = status})

\* C35: a snapshot returned by get_all_stations_status is internally
\* consistent even when the monitor or test_all_stations_connection writes
\* connection_status while it is computed: the number of detailed_status
\* entries with status online (offline, untested) equals online_stations
\* (offline_stations, untested_stations).
C35_SnapshotConsistent ==
    (snapshot.pc = "returned"
        /\ last_call.op = "get_all_stations_status") =>
        /\ DetailedCount(last_call, "online") = last_call.online_stations
        /\ DetailedCount(last_call, "offline") = last_call.offline_stations
        /\ DetailedCount(last_call, "untested") =
              last_call.untested_stations


---------------------------------------------------------------------------
(* Claims about the output files of concurrent captures, under PathSpec    *)

\* C36: no two record_station calls that are in flight at the same time
\* write to the same output file path: the path derived from country, city,
\* sanitized station name and the timestamp of one-second resolution is
\* unique among the concurrently running captures.
C36_PathsDistinct ==
    \A t, u \in Recorders :
        (t # u /\ rec[t].pc = "capture" /\ rec[u].pc = "capture") =>
            rec[t].filepath # rec[u].filepath


---------------------------------------------------------------------------
(* Claims about cleanup, under StopSpec                                    *)

\* C37: after cleanup() has run the scheduler loop and the monitor loop
\* both eventually exit, the job registry is empty, and no job fires after
\* cleanup: a firing only ever starts for a job the registry holds.
C37_NoFiringAfterCleanup ==
    /\ [][cleanup => ArmedJobs' = {}]_vars
    /\ [][JobStart => Head(run_queue) \in ArmedJobs]_vars


---------------------------------------------------------------------------
(* Claims about repair_database, under RepairSpec                          *)

\* the schema the repair is to reach: the three tables exist with their
\* country and city columns, recordings with file_size and error_message,
\* scheduled_recordings with interval_minutes, connection_status with
\* error_message
FullSchema(schema) ==
    /\ \A t \in DOMAIN schema :
          /\ schema[t].exists
          /\ {"country", "city"} \subseteq schema[t].columns
    /\ {"file_size", "error_message"} \subseteq schema["recordings"].columns
    /\ "interval_minutes" \in schema["scheduled_recordings"].columns
    /\ "error_message" \in schema["connection_status"].columns

\* C38: repair_database is idempotent and reaches the full schema from any
\* starting schema: after a run that returned true the three tables exist
\* with all their columns, and a second run adds no table and no column
\* and returns true as well.
C38_RepairIdempotent ==
    /\ [][(repair_database /\ last_call'.result) =>
             /\ FullSchema(db_schema')
             /\ Repaired(db_schema') = [schema |-> db_schema', ok |-> TRUE]
         ]_vars
    /\ [][(repair_database /\ last_call # NoCall /\ last_call.result) =>
             /\ db_schema' = db_schema
             /\ last_call'.result]_vars

\* a database made by init_database has been repaired, with a table and
\* columns added, and repaired a second time
C38_Witness ==
    /\ last_call # NoCall
    /\ last_call.op = "repair_database"
    /\ last_call.again
    /\ last_call.result
    /\ last_call.start = init_database
    /\ db_schema # init_database
    /\ last_call.before = db_schema

===========================================================================
